---------------------------- MODULE Spec2Model ----------------------------
(***************************************************************************)
(* Model of the email-verifier batch pipeline: the rate limiter, the       *)
(* retrying verification client and the scoring engine of                  *)
(* pkg/verifier/verifier.go, and the worker pool, collector and            *)
(* reassembly loop of main.go.                                             *)
(*                                                                         *)
(* Time is a discrete clock whose unit is half of the rate limiter's       *)
(* interval (50 ms).  Instead of absolute timestamps the model keeps, for  *)
(* every instant the code remembers, the time elapsed since it, saturated  *)
(* at the largest value any comparison in the code can distinguish; a      *)
(* running time.Sleep is the duration it still has to wait.                *)
(***************************************************************************)
EXTENDS Integers, Sequences, FiniteSets, TLC

(***************************************************************************)
(* Bounds of the model.                                                    *)
(***************************************************************************)
MaxRecords == 2
MaxWorkers == 2
MaxRetriesBound == 1
MaxLoad == 4
IntBits == 12
MaxCallers == 3

(***************************************************************************)
(* Program constants.                                                      *)
(***************************************************************************)
\* newRateLimiter(100 * time.Millisecond): two clock units of 50 ms
Interval == 2
\* confidenceScore := 50 // Base confidence
BaseConfidence == 50

\* "rate_limit: 5" per second, in the unit of Interval (50 ms)
RateLimitExample == 4

\* if len(req.Emails) > 100
MaxBatch == 100

\* a nil *emailverifier.Result, a nil error, an absent Result
Nil == [nil |-> TRUE]
NoError == <<>>
NoResult == [none |-> TRUE]

(***************************************************************************)
(* Strings are sequences of one-character strings, so that trimming,       *)
(* lower-casing and substring search are computed, not assumed.            *)
(***************************************************************************)
RECURSIVE TrimLeft(_)
TrimLeft(s) ==
    IF s # <<>> /\ Head(s) = " " THEN TrimLeft(Tail(s)) ELSE s

RECURSIVE TrimRight(_)
TrimRight(s) ==
    IF s # <<>> /\ s[Len(s)] = " " THEN TrimRight(SubSeq(s, 1, Len(s) - 1)) ELSE s

TrimSpace(s) == TrimRight(TrimLeft(s))

LowerChar(ch) ==
    CASE ch = "A" -> "a"
      [] ch = "B" -> "b"
      [] ch = "E" -> "e"
      [] ch = "I" -> "i"
      [] ch = "L" -> "l"
      [] ch = "M" -> "m"
      [] OTHER -> ch

ToLower(s) == [i \in 1..Len(s) |-> LowerChar(s[i])]

EqualFold(s, t) == ToLower(s) = ToLower(t)

\* strings.Contains over words: an error text is a sequence of words and a
\* pattern is a run of words
Contains(s, pat) ==
    \E i \in 1..(Len(s) - Len(pat) + 1) : SubSeq(s, i, i + Len(pat) - 1) = pat

(***************************************************************************)
(* Go's int, scaled down to IntBits bits, two's complement.                *)
(***************************************************************************)
MaxInt == 2^(IntBits - 1) - 1
MinInt == 0 - 2^(IntBits - 1)
WrapInt(x) == ((x - MinInt) % (2^IntBits)) + MinInt
AddInt(a, b) == WrapInt(a + b)

\* utils.Max and utils.Min
Max(a, b) == IF a > b THEN a ELSE b
Min(a, b) == IF a < b THEN a ELSE b

(***************************************************************************)
(* The scoring engine.                                                     *)
(***************************************************************************)
Bump(score, cond, weight) == IF cond THEN AddInt(score, weight) ELSE score

ClassifyExclusive(c, confidenceScore) ==
    IF confidenceScore > c.ValidThreshold THEN "valid"
    ELSE IF confidenceScore > c.RiskyThreshold THEN "risky"
    ELSE "invalid"

ClassifyThresholdsSorted(c, confidenceScore) ==
    IF confidenceScore >= Max(c.ValidThreshold, c.RiskyThreshold) THEN "valid"
    ELSE IF confidenceScore >= Min(c.ValidThreshold, c.RiskyThreshold) THEN "risky"
    ELSE "invalid"

ClassifyRiskyFirst(c, confidenceScore) ==
    IF confidenceScore >= c.RiskyThreshold THEN "risky"
    ELSE IF confidenceScore >= c.ValidThreshold THEN "valid"
    ELSE "invalid"

\* switch { case confidenceScore >= v.config.ValidThreshold: ... }
Classify(c, confidenceScore) ==
    IF confidenceScore >= c.ValidThreshold THEN "valid"
    ELSE IF confidenceScore >= c.RiskyThreshold THEN "risky"
    ELSE "invalid"

WeightedScore(c, result) ==
    LET w == c.ScoringWeights
        s1 == Bump(BaseConfidence, result.HasMxRecords, w.HasMxRecords)
        s2 == Bump(s1, result.Reachable = "yes", w.ReachableYes)
        s3 == Bump(s2, result.Reachable = "unknown", w.ReachableUnknown)
        s4 == Bump(s3, result.RoleAccount, w.RoleAccount)
        s5 == Bump(s4, result.Free, w.FreeProvider)
    IN  Bump(s5, result.Suggestion # "", w.Suggestion)

DetermineStatusUnclamped(c, result) ==
    IF result = Nil THEN <<"invalid", 0>>
    ELSE IF ~result.SyntaxValid THEN <<"invalid", 0>>
    ELSE IF result.Reachable = "no" THEN <<"invalid", 0>>
    ELSE IF result.Disposable THEN <<"invalid", 10>>
    ELSE LET confidenceScore == WeightedScore(c, result)
         IN  <<Classify(c, confidenceScore), confidenceScore>>

DetermineStatusNoDisposableRule(c, result) ==
    IF result = Nil THEN <<"invalid", 0>>
    ELSE IF ~result.SyntaxValid THEN <<"invalid", 0>>
    ELSE IF result.Reachable = "no" THEN <<"invalid", 0>>
    ELSE LET confidenceScore == Max(0, Min(WeightedScore(c, result), 100))
         IN  <<Classify(c, confidenceScore), confidenceScore>>

DetermineStatusDisposableFirst(c, result) ==
    IF result = Nil THEN <<"invalid", 0>>
    ELSE IF result.Disposable THEN <<"invalid", 10>>
    ELSE IF ~result.SyntaxValid THEN <<"invalid", 0>>
    ELSE IF result.Reachable = "no" THEN <<"invalid", 0>>
    ELSE LET confidenceScore == Max(0, Min(WeightedScore(c, result), 100))
         IN  <<Classify(c, confidenceScore), confidenceScore>>

DetermineStatus(c, result) ==
    IF result = Nil THEN <<"invalid", 0>>
    ELSE IF ~result.SyntaxValid THEN <<"invalid", 0>>
    ELSE IF result.Reachable = "no" THEN <<"invalid", 0>>
    ELSE IF result.Disposable THEN <<"invalid", 10>>
    ELSE LET confidenceScore == Max(0, Min(WeightedScore(c, result), 100))
         IN  <<Classify(c, confidenceScore), confidenceScore>>


(***************************************************************************)
(* Errors.  An error is NoError (nil) or its text.                         *)
(***************************************************************************)
\* fmt.Errorf("panic during verification: %v", r)
PanicError(r) == <<"panic", "during", "verification:">> \o r

isRetryableErrorAlways(e) == e # NoError

isRetryableErrorNoRefused(e) ==
    IF e = NoError THEN FALSE
    ELSE \/ Contains(e, <<"timeout">>)
         \/ Contains(e, <<"i/o", "error">>)
         \/ Contains(e, <<"no", "such", "host">>)
         \/ Contains(e, <<"network", "is", "unreachable">>)

\* strings.Contains(errMsg, ...) over the five patterns
isRetryableError(e) ==
    IF e = NoError THEN FALSE
    ELSE \/ Contains(e, <<"timeout">>)
         \/ Contains(e, <<"i/o", "error">>)
         \/ Contains(e, <<"connection", "refused">>)
         \/ Contains(e, <<"no", "such", "host">>)
         \/ Contains(e, <<"network", "is", "unreachable">>)

(***************************************************************************)
(* What the external probe (emailverifier.Verifier.Verify) can do.         *)
(***************************************************************************)
SigGood ==
    [SyntaxValid |-> TRUE, Disposable |-> FALSE, HasMxRecords |-> TRUE,
     Reachable |-> "yes", RoleAccount |-> FALSE, Free |-> FALSE, Suggestion |-> ""]

ProbeSignals == {SigGood}

ProbeErrors == {<<"dial", "tcp:", "connection", "refused">>, <<"invalid", "address">>}

PanicValues == {<<"nil", "pointer", "dereference">>, <<"i/o", "timeout">>}

ProbeOutcomes ==
    {[kind |-> "ok", result |-> sig, err |-> NoError] : sig \in ProbeSignals}
        \cup {[kind |-> "error", result |-> Nil, err |-> m] : m \in ProbeErrors}
        \cup {[kind |-> "panic", result |-> Nil, err |-> v] : v \in PanicValues}

(***************************************************************************)
(* Configuration (config.Config) and input records.                        *)
(***************************************************************************)
DefaultWeights ==
    [HasMxRecords |-> 20, ReachableYes |-> 40, ReachableUnknown |-> 20,
     RoleAccount |-> 0 - 10, FreeProvider |-> 0 - 5, Suggestion |-> 0 - 10]

Config(workers, retries) ==
    [NumWorkers |-> workers, MaxRetries |-> retries, InitialBackoff |-> 1,
     ValidThreshold |-> 80, RiskyThreshold |-> 60, ScoringWeights |-> DefaultWeights]

\* a record is a map from column names to cell values
EmailKey == <<"e", "m", "a", "i", "l">>
CellValues == {<<" ">>, <<"a">>, <<" ", "A">>, <<"b">>}
SimpleRecords == {[k \in {EmailKey} |-> v] : v \in CellValues}

RecordLists == UNION {[1..n -> SimpleRecords] : n \in 1..MaxRecords}

\* the values the loop "for key, value := range record" can stop at
EmailOf(record) ==
    {TrimSpace(record[k]) : k \in {k \in DOMAIN record : EqualFold(k, EmailKey)}}

NormalKey(email) == ToLower(TrimSpace(email))

VerifierResult(email, status, score) ==
    [Email |-> email, VerificationStatus |-> status, ConfidenceScore |-> score]

(***************************************************************************)
(* State.                                                                  *)
(***************************************************************************)
VARIABLES
    cfg,            \* the loaded configuration
    records,        \* the input records
    sendIdx,        \* the sender goroutine's position in records
    recordsClosed,  \* close(recordsChan) has happened
    resultsClosed,  \* close(resultsChan) has happened
    pc,             \* each worker's position
    cur,            \* each worker's record index and email
    handle,         \* the probe handle each worker took from the pool (0: none)
    attempt,        \* VerifyWithRetry's loop variable
    err,            \* VerifyWithRetry's err
    sleepLeft,      \* what is left of the worker's running time.Sleep
    pending,        \* the Result and progress status a worker is about to emit
    pool,           \* the handles lying in the sync.Pool
    rlHolder,       \* holder of rateLimiter.mu (0: unlocked)
    sinceLastCall,  \* time since rateLimiter.lastCall
    progress,       \* the progress counters
    pmuHolder,      \* holder of progress.mu (0: unlocked)
    resultsMap,     \* the collector's map
    mainPc,         \* main's position
    outIdx,         \* the reassembly loop's position
    results,        \* the ordered output
    sinceLastProbe, \* history: time since the latest start of a probe
    admitGap,       \* history: per worker, lastCall's age when it passed the gate
    callLog,        \* history: the events of the worker's current VerifyWithRetry
    collected,      \* history: what the collector received, in order of arrival
    signals,        \* scoring check: the probe result given to DetermineStatus
    verdict,        \* scoring check: what DetermineStatus returned
    rateLimit,      \* the rate limit the configuration file asks for, as an interval
    writeIdx,       \* writer: the row loop's position in records
    rows,           \* writer: the data rows written so far
    apiReq,         \* API: the emails of the batch request
    apiIdx,         \* API: the handler's position in the emails
    apiResults,     \* API: the response entries built so far
    apiPc           \* API: the handler's position

workerVars == <<pc, cur, handle, attempt, err, sleepLeft, pending, callLog>>
chanVars == <<sendIdx, recordsClosed, resultsClosed>>
limiterVars == <<rlHolder, sinceLastCall, admitGap>>
mainVars == <<resultsMap, mainPc, outIdx, results, collected>>
scoreVars == <<signals, verdict>>
apiVars == <<apiReq, apiIdx, apiResults, apiPc>>
writeVars == <<writeIdx, rows>>
vars == <<cfg, records, workerVars, chanVars, limiterVars, mainVars, scoreVars,
          pool, progress, pmuHolder, sinceLastProbe, rateLimit, writeVars, apiVars>>

Workers == 1..cfg.NumWorkers
Handles == 1..Max(1, cfg.NumWorkers)

\* time.Time{} lies further back than any interval
Saturated == Interval

PipelineInit(recs, c) ==
    /\ cfg = c
    /\ records = recs
    /\ sendIdx = 1
    /\ recordsClosed = FALSE
    /\ resultsClosed = FALSE
    /\ pc = [w \in 1..c.NumWorkers |-> "recv"]
    /\ cur = [w \in 1..c.NumWorkers |-> [idx |-> 0, email |-> <<>>]]
    /\ handle = [w \in 1..c.NumWorkers |-> 0]
    /\ attempt = [w \in 1..c.NumWorkers |-> 0]
    /\ err = [w \in 1..c.NumWorkers |-> NoError]
    /\ sleepLeft = [w \in 1..c.NumWorkers |-> 0]
    /\ pending = [w \in 1..c.NumWorkers |-> NoResult]
    /\ callLog = [w \in 1..c.NumWorkers |-> <<>>]
    /\ pool = {}
    /\ rlHolder = 0
    /\ sinceLastCall = Saturated
    /\ admitGap = [w \in 1..c.NumWorkers |-> Saturated]
    /\ progress = [processed |-> 0, valid |-> 0, risky |-> 0, invalid |-> 0, errors |-> 0]
    /\ pmuHolder = 0
    /\ resultsMap = <<>>
    /\ mainPc = "collect"
    /\ outIdx = 1
    /\ results = <<>>
    /\ sinceLastProbe = Saturated
    /\ collected = <<>>

\* WriteResults has not been called
WriteIdle ==
    /\ writeIdx = 1
    /\ rows = <<>>

\* no API request is being served
ApiIdle ==
    /\ apiReq = <<>>
    /\ apiIdx = 1
    /\ apiResults = <<>>
    /\ apiPc = "idle"

(***************************************************************************)
(* The probe-handle pool (sync.Pool).                                      *)
(***************************************************************************)
HeldHandles == {handle[w] : w \in Workers} \ {0}

\* pool.New builds a handle that exists nowhere else
NewHandle ==
    LET unused == Handles \ (pool \cup HeldHandles)
    IN  IF unused = {} THEN {} ELSE {CHOOSE h \in unused : \A g \in unused : h <= g}

\* pool.Get returns a pooled handle, or a new one when it finds none
PoolGet == pool \cup NewHandle

PutOnExitSuccessOnly(w, path) ==
    IF path = "success"
    THEN /\ pool' = pool \cup {handle[w]}
         /\ handle' = [handle EXCEPT ![w] = 0]
    ELSE UNCHANGED <<pool, handle>>

\* defer v.pool.Put(verifier)
PutOnExit(w, path) ==
    /\ pool' = pool \cup {handle[w]}
    /\ handle' = [handle EXCEPT ![w] = 0]

(***************************************************************************)
(* The worker loop of main.go.                                             *)
(***************************************************************************)
Log(w, event) == callLog' = [callLog EXCEPT ![w] = Append(@, event)]

\* history events: how an attempt ended, and what VerifyWithRetry returned
Ended(o, e) == <<"outcome", o.kind, e, o.result>>
Returned(result, e) == <<"return", [result |-> result, err |-> e]>>

RecvRecordNoSkip(w) ==
    /\ pc[w] = "recv"
    /\ ~recordsClosed
    /\ sendIdx <= Len(records)
    /\ sendIdx' = sendIdx + 1
    /\ \E email \in EmailOf(records[sendIdx]) :
          /\ pc' = [pc EXCEPT ![w] = "call"]
          /\ cur' = [cur EXCEPT ![w] = [idx |-> sendIdx, email |-> email]]
    /\ UNCHANGED <<cfg, records, recordsClosed, resultsClosed, handle, attempt, err,
                   sleepLeft, pending, callLog, pool, limiterVars, progress, pmuHolder,
                   mainVars, scoreVars, rateLimit, writeVars, apiVars, sinceLastProbe>>

\* recordsChan <- record meets "for record := range recordsChan"
RecvRecord(w) ==
    /\ pc[w] = "recv"
    /\ ~recordsClosed
    /\ sendIdx <= Len(records)
    /\ sendIdx' = sendIdx + 1
    /\ \E email \in EmailOf(records[sendIdx]) :
          IF email = <<>>
          THEN UNCHANGED <<pc, cur>>
          ELSE /\ pc' = [pc EXCEPT ![w] = "call"]
               /\ cur' = [cur EXCEPT ![w] = [idx |-> sendIdx, email |-> email]]
    /\ UNCHANGED <<cfg, records, recordsClosed, resultsClosed, handle, attempt, err,
                   sleepLeft, pending, callLog, pool, limiterVars, progress, pmuHolder,
                   mainVars, scoreVars, rateLimit, writeVars, apiVars, sinceLastProbe>>

WorkerExitEarly(w) ==
    /\ pc[w] = "recv"
    /\ pc' = [pc EXCEPT ![w] = "exited"]
    /\ UNCHANGED <<cfg, records, cur, handle, attempt, err, sleepLeft, pending, callLog,
                   chanVars, pool, limiterVars, progress, pmuHolder, mainVars, scoreVars, rateLimit, writeVars, apiVars,
                   sinceLastProbe>>

\* the range loop ends on the closed channel; defer wg.Done()
WorkerExit(w) ==
    /\ pc[w] = "recv"
    /\ recordsClosed
    /\ pc' = [pc EXCEPT ![w] = "exited"]
    /\ UNCHANGED <<cfg, records, cur, handle, attempt, err, sleepLeft, pending, callLog,
                   chanVars, pool, limiterVars, progress, pmuHolder, mainVars, scoreVars, rateLimit, writeVars, apiVars,
                   sinceLastProbe>>

WorkerResultRisky(w, result, e) ==
    IF e # NoError
    THEN [result |-> VerifierResult(cur[w].email, "risky", BaseConfidence), status |-> "error"]
    ELSE LET d == DetermineStatus(cfg, result)
         IN  [result |-> VerifierResult(cur[w].email, d[1], d[2]), status |-> d[1]]

\* what the worker does with VerifyWithRetry's return values, up to the send
WorkerResult(w, result, e) ==
    IF e # NoError
    THEN [result |-> VerifierResult(cur[w].email, "invalid", 0), status |-> "error"]
    ELSE LET d == DetermineStatus(cfg, result)
         IN  [result |-> VerifierResult(cur[w].email, d[1], d[2]), status |-> d[1]]

(***************************************************************************)
(* VerifyWithRetry.                                                        *)
(***************************************************************************)
\* return result, err: the deferred Put runs and the worker takes over
Return(w, result, e, path) ==
    /\ PutOnExit(w, path)
    /\ err' = [err EXCEPT ![w] = e]
    /\ pending' = [pending EXCEPT ![w] = WorkerResult(w, result, e)]
    /\ pc' = [pc EXCEPT ![w] = "send"]

VerifyStartKeepsPooled(w) ==
    /\ pc[w] = "call"
    /\ \E h \in PoolGet :
          /\ handle' = [handle EXCEPT ![w] = h]
          /\ pool' = pool
    /\ attempt' = [attempt EXCEPT ![w] = 0]
    /\ err' = [err EXCEPT ![w] = NoError]
    /\ callLog' = [callLog EXCEPT ![w] = <<>>]
    /\ pc' = [pc EXCEPT ![w] = "loop"]
    /\ UNCHANGED <<cfg, records, cur, sleepLeft, pending, chanVars, limiterVars, progress,
                   pmuHolder, mainVars, scoreVars, rateLimit, writeVars, apiVars, sinceLastProbe>>

\* verifier := v.pool.Get().(*emailverifier.Verifier); the loop is entered
VerifyStart(w) ==
    /\ pc[w] = "call"
    /\ \E h \in PoolGet :
          /\ handle' = [handle EXCEPT ![w] = h]
          /\ pool' = pool \ {h}
    /\ attempt' = [attempt EXCEPT ![w] = 0]
    /\ err' = [err EXCEPT ![w] = NoError]
    /\ callLog' = [callLog EXCEPT ![w] = <<>>]
    /\ pc' = [pc EXCEPT ![w] = "loop"]
    /\ UNCHANGED <<cfg, records, cur, sleepLeft, pending, chanVars, limiterVars, progress,
                   pmuHolder, mainVars, scoreVars, rateLimit, writeVars, apiVars, sinceLastProbe>>

LoopConditionOffByOne(w) == attempt[w] <= cfg.MaxRetries + 1

\* attempt <= v.config.MaxRetries
LoopCondition(w) == attempt[w] <= cfg.MaxRetries

LoopTestDropsError(w) ==
    /\ pc[w] = "loop"
    /\ IF LoopCondition(w)
       THEN /\ pc' = [pc EXCEPT ![w] = "rl_lock"]
            /\ UNCHANGED <<handle, err, pending, pool>>
       ELSE Return(w, Nil, NoError, "exhausted")
    /\ callLog' = IF LoopCondition(w) THEN callLog
                  ELSE [callLog EXCEPT ![w] = Append(@, Returned(Nil, NoError))]
    /\ UNCHANGED <<cfg, records, cur, attempt, sleepLeft, chanVars, limiterVars,
                   progress, pmuHolder, mainVars, scoreVars, rateLimit, writeVars, apiVars,
                   sinceLastProbe>>

\* the loop test; past the last attempt, "return nil, err"
LoopTest(w) ==
    /\ pc[w] = "loop"
    /\ IF LoopCondition(w)
       THEN /\ pc' = [pc EXCEPT ![w] = "rl_lock"]
            /\ UNCHANGED <<handle, err, pending, pool>>
       ELSE Return(w, Nil, err[w], "exhausted")
    /\ callLog' = IF LoopCondition(w) THEN callLog
                  ELSE [callLog EXCEPT ![w] = Append(@, Returned(Nil, err[w]))]
    /\ UNCHANGED <<cfg, records, cur, attempt, sleepLeft, chanVars, limiterVars,
                   progress, pmuHolder, mainVars, scoreVars, rateLimit, writeVars, apiVars, sinceLastProbe>>

(***************************************************************************)
(* rateLimiter.wait.                                                       *)
(***************************************************************************)
SleepNeededNever(elapsed) == 0

\* if elapsed < rl.interval { time.Sleep(rl.interval - elapsed) }
SleepNeeded(elapsed) == IF elapsed < Interval THEN Interval - elapsed ELSE 0

GateFreeUnlocked == TRUE

\* rl.mu.Lock() returns only when nobody holds the mutex
GateFree == rlHolder = 0

RlEnterUnlocksBeforeSleep(w) ==
    /\ pc[w] = "rl_lock"
    /\ GateFree
    /\ rlHolder' = 0
    /\ sleepLeft' = [sleepLeft EXCEPT ![w] = SleepNeeded(sinceLastCall)]
    /\ pc' = [pc EXCEPT ![w] = "rl_wait"]
    /\ UNCHANGED <<cfg, records, cur, handle, attempt, err, pending, callLog, chanVars,
                   pool, sinceLastCall, admitGap, progress, pmuHolder, mainVars,
                   scoreVars, rateLimit, writeVars, apiVars, sinceLastProbe>>

\* rl.mu.Lock(); now := time.Now(); elapsed := now.Sub(rl.lastCall); Sleep starts
RlEnter(w) ==
    /\ pc[w] = "rl_lock"
    /\ GateFree
    /\ rlHolder' = w
    /\ sleepLeft' = [sleepLeft EXCEPT ![w] = SleepNeeded(sinceLastCall)]
    /\ pc' = [pc EXCEPT ![w] = "rl_wait"]
    /\ UNCHANGED <<cfg, records, cur, handle, attempt, err, pending, callLog, chanVars,
                   pool, sinceLastCall, admitGap, progress, pmuHolder, mainVars,
                   scoreVars, rateLimit, writeVars, apiVars, sinceLastProbe>>

RlLeaveKeepsLock(w) ==
    /\ pc[w] = "rl_wait"
    /\ sleepLeft[w] = 0
    /\ admitGap' = [admitGap EXCEPT ![w] = sinceLastCall]
    /\ sinceLastCall' = 0
    /\ rlHolder' = rlHolder
    /\ pc' = [pc EXCEPT ![w] = "probe"]
    /\ Log(w, <<"wait">>)
    /\ UNCHANGED <<cfg, records, cur, handle, attempt, err, sleepLeft, pending, chanVars,
                   pool, progress, pmuHolder, mainVars, scoreVars, rateLimit, writeVars, apiVars, sinceLastProbe>>

\* the Sleep is over; rl.lastCall = time.Now(); the deferred rl.mu.Unlock()
RlLeave(w) ==
    /\ pc[w] = "rl_wait"
    /\ sleepLeft[w] = 0
    /\ admitGap' = [admitGap EXCEPT ![w] = sinceLastCall]
    /\ sinceLastCall' = 0
    /\ rlHolder' = IF rlHolder = w THEN 0 ELSE rlHolder
    /\ pc' = [pc EXCEPT ![w] = "probe"]
    /\ Log(w, <<"wait">>)
    /\ UNCHANGED <<cfg, records, cur, handle, attempt, err, sleepLeft, pending, chanVars,
                   pool, progress, pmuHolder, mainVars, scoreVars, rateLimit, writeVars, apiVars, sinceLastProbe>>

(***************************************************************************)
(* One attempt: the probe call inside the recovering closure.              *)
(***************************************************************************)
ProbeStart(w) ==
    /\ pc[w] = "probe"
    /\ pc' = [pc EXCEPT ![w] = "probing"]
    /\ sinceLastProbe' = 0
    /\ Log(w, <<"probe">>)
    /\ UNCHANGED <<cfg, records, cur, handle, attempt, err, sleepLeft, pending, chanVars,
                   pool, limiterVars, progress, pmuHolder, mainVars, scoreVars, rateLimit, writeVars, apiVars>>

ProtectedVerifyNoRecover(o) ==
    CASE o.kind = "ok" -> [result |-> o.result, err |-> NoError, panicked |-> FALSE]
      [] o.kind = "error" -> [result |-> o.result, err |-> o.err, panicked |-> FALSE]
      [] o.kind = "panic" -> [result |-> Nil, err |-> NoError, panicked |-> TRUE]

ProtectedVerifyDropsResult(o) ==
    CASE o.kind = "ok" -> [result |-> Nil, err |-> NoError, panicked |-> FALSE]
      [] o.kind = "error" -> [result |-> o.result, err |-> o.err, panicked |-> FALSE]
      [] o.kind = "panic" -> [result |-> Nil, err |-> PanicError(o.err), panicked |-> FALSE]

\* func() { defer func() { if r := recover(); r != nil { err = ... } }();
\*          result, err = verifier.Verify(email) }()
ProtectedVerify(o) ==
    CASE o.kind = "ok" -> [result |-> o.result, err |-> NoError, panicked |-> FALSE]
      [] o.kind = "error" -> [result |-> o.result, err |-> o.err, panicked |-> FALSE]
      [] o.kind = "panic" -> [result |-> Nil, err |-> PanicError(o.err), panicked |-> FALSE]

BackoffDurationFromOne(a) == cfg.InitialBackoff * 2^(a + 1)

\* v.config.InitialBackoff * time.Duration(math.Pow(2, float64(attempt)))
BackoffDuration(a) == cfg.InitialBackoff * 2^a

\* the probe returns (or panics); the code up to the return or the Sleep
ProbeReturn(w) ==
    /\ pc[w] = "probing"
    /\ \E o \in ProbeOutcomes :
          LET r == ProtectedVerify(o) IN
          IF r.panicked
          THEN \* the panic unwinds VerifyWithRetry and the worker goroutine
               /\ PutOnExit(w, "panic")
               /\ pc' = [pc EXCEPT ![w] = "panicked"]
               /\ Log(w, Ended(o, r.err))
               /\ UNCHANGED <<err, pending, sleepLeft>>
          ELSE IF r.err = NoError
          THEN /\ Return(w, r.result, NoError, "success")
               /\ callLog' = [callLog EXCEPT ![w] =
                      @ \o <<Ended(o, NoError), Returned(r.result, NoError)>>]
               /\ UNCHANGED sleepLeft
          ELSE IF isRetryableError(r.err)
          THEN /\ err' = [err EXCEPT ![w] = r.err]
               /\ sleepLeft' = [sleepLeft EXCEPT ![w] = BackoffDuration(attempt[w])]
               /\ pc' = [pc EXCEPT ![w] = "backoff"]
               /\ callLog' = [callLog EXCEPT ![w] =
                      @ \o <<Ended(o, r.err), <<"sleep", BackoffDuration(attempt[w])>>>>]
               /\ UNCHANGED <<handle, pool, pending>>
          ELSE /\ Return(w, Nil, r.err, "fatal")
               /\ callLog' = [callLog EXCEPT ![w] =
                      @ \o <<Ended(o, r.err), Returned(Nil, r.err)>>]
               /\ UNCHANGED sleepLeft
    /\ UNCHANGED <<cfg, records, cur, attempt, chanVars, limiterVars, progress, pmuHolder,
                   mainVars, scoreVars, rateLimit, writeVars, apiVars, sinceLastProbe>>

BackoffWakeSkipsGate(w) ==
    /\ pc[w] = "backoff"
    /\ sleepLeft[w] = 0
    /\ attempt' = [attempt EXCEPT ![w] = @ + 1]
    /\ pc' = [pc EXCEPT ![w] = IF attempt[w] + 1 <= cfg.MaxRetries THEN "probe" ELSE "loop"]
    /\ UNCHANGED <<cfg, records, cur, handle, err, sleepLeft, pending, callLog, chanVars,
                   pool, limiterVars, progress, pmuHolder, mainVars, scoreVars, rateLimit, writeVars, apiVars,
                   sinceLastProbe>>

\* time.Sleep(backoffDuration) is over; attempt++
BackoffWake(w) ==
    /\ pc[w] = "backoff"
    /\ sleepLeft[w] = 0
    /\ attempt' = [attempt EXCEPT ![w] = @ + 1]
    /\ pc' = [pc EXCEPT ![w] = "loop"]
    /\ UNCHANGED <<cfg, records, cur, handle, err, sleepLeft, pending, callLog, chanVars,
                   pool, limiterVars, progress, pmuHolder, mainVars, scoreVars, rateLimit, writeVars, apiVars,
                   sinceLastProbe>>

(***************************************************************************)
(* Emitting the Result and progress.update.                                *)
(***************************************************************************)
StoreFirstWins(map, result) == map @@ (NormalKey(result.Email) :> result)

\* resultsMap[strings.ToLower(strings.TrimSpace(result.Email))] = result
Store(map, result) == (NormalKey(result.Email) :> result) @@ map

\* resultsChan <- verifier.Result{...} meets "for result := range resultsChan";
\* resultsMap[strings.ToLower(strings.TrimSpace(result.Email))] = result
SendResult(w) ==
    /\ pc[w] = "send"
    /\ mainPc = "collect"
    /\ ~resultsClosed
    /\ resultsMap' = Store(resultsMap, pending[w].result)
    /\ collected' = Append(collected, [idx |-> cur[w].idx, result |-> pending[w].result,
                                         status |-> pending[w].status])
    /\ pc' = [pc EXCEPT ![w] = "update"]
    /\ cur' = [cur EXCEPT ![w] = [idx |-> 0, email |-> <<>>]]
    /\ err' = [err EXCEPT ![w] = NoError]
    /\ attempt' = [attempt EXCEPT ![w] = 0]
    /\ callLog' = [callLog EXCEPT ![w] = <<>>]
    /\ pending' = [pending EXCEPT ![w] = [status |-> pending[w].status]]
    /\ UNCHANGED <<cfg, records, handle, sleepLeft, chanVars, pool, limiterVars,
                   progress, pmuHolder, mainPc, outIdx, results, scoreVars, rateLimit, writeVars, apiVars,
                   sinceLastProbe>>

UpdateLockNoMutex(w) ==
    /\ pc[w] = "update"
    /\ pmuHolder' = w
    /\ pending' = [pending EXCEPT ![w] = [status |-> @.status, seen |-> progress]]
    /\ pc' = [pc EXCEPT ![w] = "counting"]
    /\ UNCHANGED <<cfg, records, cur, handle, attempt, err, sleepLeft, callLog,
                   chanVars, pool, limiterVars, progress, mainVars, scoreVars, rateLimit, writeVars, apiVars,
                   sinceLastProbe>>

\* p.mu.Lock(); the counters that "p.processed++" and the status counter's
\* "++" are about to change are read
UpdateLock(w) ==
    /\ pc[w] = "update"
    /\ pmuHolder = 0
    /\ pmuHolder' = w
    /\ pending' = [pending EXCEPT ![w] = [status |-> @.status, seen |-> progress]]
    /\ pc' = [pc EXCEPT ![w] = "counting"]
    /\ UNCHANGED <<cfg, records, cur, handle, attempt, err, sleepLeft, callLog,
                   chanVars, pool, limiterVars, progress, mainVars, scoreVars, rateLimit, writeVars, apiVars,
                   sinceLastProbe>>

CountedErrorAsInvalid(p, status) ==
    LET q == [p EXCEPT !.processed = @ + 1]
    IN  CASE status = "valid" -> [q EXCEPT !.valid = @ + 1]
          [] status = "risky" -> [q EXCEPT !.risky = @ + 1]
          [] status = "invalid" -> [q EXCEPT !.invalid = @ + 1]
          [] status = "error" -> [q EXCEPT !.invalid = @ + 1]
          [] OTHER -> q

\* p.processed++; switch status { case "valid": p.valid++ ... }
Counted(p, status) ==
    LET q == [p EXCEPT !.processed = @ + 1]
    IN  CASE status = "valid" -> [q EXCEPT !.valid = @ + 1]
          [] status = "risky" -> [q EXCEPT !.risky = @ + 1]
          [] status = "invalid" -> [q EXCEPT !.invalid = @ + 1]
          [] status = "error" -> [q EXCEPT !.errors = @ + 1]
          [] OTHER -> q

\* the incremented counters are written; the deferred p.mu.Unlock(); next
\* iteration
UpdateCount(w) ==
    /\ pc[w] = "counting"
    /\ progress' = Counted(pending[w].seen, pending[w].status)
    /\ pmuHolder' = IF pmuHolder = w THEN 0 ELSE pmuHolder
    /\ pc' = [pc EXCEPT ![w] = "recv"]
    /\ pending' = [pending EXCEPT ![w] = NoResult]
    /\ UNCHANGED <<cfg, records, cur, handle, attempt, err, sleepLeft, callLog, chanVars,
                   pool, limiterVars, mainVars, scoreVars, rateLimit, writeVars, apiVars, sinceLastProbe>>

(***************************************************************************)
(* main's goroutines: the sender, the closer, the collector, reassembly.   *)
(***************************************************************************)
CloseRecordsForgotten ==
    /\ sendIdx > Len(records)
    /\ ~recordsClosed
    /\ UNCHANGED vars

\* close(recordsChan) after the last record was taken
CloseRecords ==
    /\ sendIdx > Len(records)
    /\ ~recordsClosed
    /\ recordsClosed' = TRUE
    /\ UNCHANGED <<cfg, records, sendIdx, resultsClosed, workerVars, pool, limiterVars,
                   progress, pmuHolder, mainVars, scoreVars, rateLimit, writeVars, apiVars, sinceLastProbe>>

AllWorkersDoneNoWait == TRUE

AllWorkersDoneBeforeUpdate ==
    \A w \in Workers : pc[w] \in {"exited", "update", "counting"}

\* wg.Wait() returns when every worker has called wg.Done()
AllWorkersDone == \A w \in Workers : pc[w] = "exited"

\* wg.Wait(); close(resultsChan)
CloseResults ==
    /\ AllWorkersDone
    /\ ~resultsClosed
    /\ resultsClosed' = TRUE
    /\ UNCHANGED <<cfg, records, sendIdx, recordsClosed, workerVars, pool, limiterVars,
                   progress, pmuHolder, mainVars, scoreVars, rateLimit, writeVars, apiVars, sinceLastProbe>>

\* "for result := range resultsChan" ends on the closed channel
CollectEnd ==
    /\ mainPc = "collect"
    /\ resultsClosed
    /\ mainPc' = "assemble"
    /\ UNCHANGED <<cfg, records, chanVars, workerVars, pool, limiterVars, progress,
                   pmuHolder, resultsMap, outIdx, results, collected, scoreVars, rateLimit, writeVars, apiVars,
                   sinceLastProbe>>

LookupFallbackRisky(email) ==
    IF ToLower(email) \in DOMAIN resultsMap
    THEN resultsMap[ToLower(email)]
    ELSE VerifierResult(email, "risky", BaseConfidence)

LookupCaseSensitive(email) ==
    IF email \in DOMAIN resultsMap
    THEN resultsMap[email]
    ELSE VerifierResult(email, "invalid", 0)

\* the entry the reassembly loop appends for an email
Lookup(email) ==
    IF ToLower(email) \in DOMAIN resultsMap
    THEN resultsMap[ToLower(email)]
    ELSE VerifierResult(email, "invalid", 0)

\* one iteration of "for _, record := range records" of the reassembly
AssembleStep ==
    /\ mainPc = "assemble"
    /\ outIdx <= Len(records)
    /\ \E email \in EmailOf(records[outIdx]) :
          results' = IF email = <<>> THEN results ELSE Append(results, Lookup(email))
    /\ outIdx' = outIdx + 1
    /\ mainPc' = IF outIdx = Len(records) THEN "done" ELSE "assemble"
    /\ UNCHANGED <<cfg, records, chanVars, workerVars, pool, limiterVars, progress,
                   pmuHolder, resultsMap, collected, scoreVars, rateLimit, writeVars, apiVars, sinceLastProbe>>

(***************************************************************************)
(* The passage of time.                                                    *)
(***************************************************************************)
Tick ==
    /\ sinceLastCall' = Min(sinceLastCall + 1, Saturated)
    /\ sinceLastProbe' = Min(sinceLastProbe + 1, Saturated)
    /\ sleepLeft' = [w \in Workers |-> Max(0, sleepLeft[w] - 1)]
    /\ UNCHANGED <<cfg, records, pc, cur, handle, attempt, err, pending, callLog,
                   chanVars, pool, rlHolder, admitGap, progress, pmuHolder, mainVars,
                   scoreVars, rateLimit, writeVars, apiVars>>

(***************************************************************************)
(* The batch run.                                                          *)
(***************************************************************************)
MinRetries == 0 - 1

\* num_workers is not validated either
MinWorkers == 0 - 1

Configs ==
    {Config(n, r) : n \in MinWorkers..MaxWorkers, r \in MinRetries..MaxRetriesBound}

\* initial_backoff other than one time unit
SlowConfigs ==
    {[Config(1, r) EXCEPT !.InitialBackoff = 2] : r \in 0..MaxRetriesBound}

\* rate_limit settings of the configuration file: the limiter's own interval
\* and the documentation's example
RateLimitSettings == {Interval, RateLimitExample}

\* a list of distinct, clean addresses
Letters == <<"a", "b", "c", "d">>
PlainList(n) == [i \in 1..n |-> [k \in {EmailKey} |-> <<Letters[i]>>]]

\* The runs explored: every shape of record list where nothing is retried twice,
\* the plain lists under every retry count, and no more than MaxLoad
\* worker-record pairs.
Explored(recs, c) ==
    /\ c.MaxRetries <= 0 \/ recs = PlainList(Len(recs))
    /\ c.NumWorkers * Len(recs) <= MaxLoad
    /\ c.InitialBackoff = 1 \/ recs = PlainList(1)

\* the other rate_limit setting is explored where two workers meet at the gate
ExploredSetting(recs, c, rl) ==
    rl = Interval \/ (c = Config(2, 0) /\ recs = PlainList(2))

Init ==
    \E recs \in RecordLists, c \in Configs \cup SlowConfigs, rl \in RateLimitSettings :
        /\ Explored(recs, c)
        /\ ExploredSetting(recs, c, rl)
        /\ PipelineInit(recs, c)
        /\ signals = Nil
        /\ verdict = <<>>
        /\ rateLimit = rl
        /\ WriteIdle
        /\ ApiIdle

Next ==
    \/ \E w \in Workers : RecvRecord(w)
    \/ \E w \in Workers : WorkerExit(w)
    \/ \E w \in Workers : VerifyStart(w)
    \/ \E w \in Workers : LoopTest(w)
    \/ \E w \in Workers : RlEnter(w)
    \/ \E w \in Workers : RlLeave(w)
    \/ \E w \in Workers : ProbeStart(w)
    \/ \E w \in Workers : ProbeReturn(w)
    \/ \E w \in Workers : BackoffWake(w)
    \/ \E w \in Workers : SendResult(w)
    \/ \E w \in Workers : UpdateLock(w)
    \/ \E w \in Workers : UpdateCount(w)
    \/ CloseRecords
    \/ CloseResults
    \/ CollectEnd
    \/ AssembleStep
    \/ Tick

Spec == Init /\ [][Next]_vars

\* Every probe call returns, the clock advances and the scheduler runs a
\* goroutine that can run: the pipeline does not stop while a step is possible.
FairSpec == Spec /\ WF_vars(Next)

(***************************************************************************)
(* The batch run over files with two email columns.  The reader stores     *)
(* every cell under its header and under the lower-cased header, so the    *)
(* headers "Email" and "EMAIL" give a record three keys that match         *)
(* "email": each header with its own cell, and "email" with the cell of    *)
(* the later column.                                                       *)
(***************************************************************************)
TitleKey == <<"E", "m", "a", "i", "l">>
UpperKey == <<"E", "M", "A", "I", "L">>

\* record[normalizedHeaders[i]] = value; record[originalHeaders[i]] = value
TwoColumnRecord(first, second) ==
    [k \in {EmailKey, TitleKey, UpperKey} |-> IF k = TitleKey THEN first ELSE second]

KeyedRecords == {TwoColumnRecord(<<"a">>, <<"b">>), [k \in {EmailKey} |-> <<"a">>]}

KeyedLists == UNION {[1..n -> KeyedRecords] : n \in 1..MaxRecords}

KeysInit ==
    \E recs \in KeyedLists, r \in 0..MaxRetriesBound :
        /\ Explored(recs, Config(1, r))
        /\ PipelineInit(recs, Config(1, r))
        /\ signals = Nil
        /\ verdict = <<>>
        /\ rateLimit = Interval
        /\ WriteIdle
        /\ ApiIdle

SpecKeys == KeysInit /\ [][Next]_vars

(***************************************************************************)
(* The scoring engine on its own: DetermineStatus applied to every probe   *)
(* result under a range of configurations.                                 *)
(***************************************************************************)
AllSignals ==
    [SyntaxValid : BOOLEAN, Disposable : BOOLEAN, HasMxRecords : BOOLEAN,
     Reachable : {"yes", "no", "unknown"}, RoleAccount : BOOLEAN, Free : BOOLEAN,
     Suggestion : {"", "gmail.com"}]

\* the weights are any integers: large and small, of either sign, and the
\* extremes of the integer range
BonusValues == {0 - 60, 20, MaxInt}
PenaltyValues == {MinInt, 0 - 10, 20}

AllWeights ==
    [HasMxRecords : BonusValues, ReachableYes : BonusValues,
     ReachableUnknown : BonusValues, RoleAccount : PenaltyValues,
     FreeProvider : PenaltyValues, Suggestion : PenaltyValues]

\* <<valid_threshold, risky_threshold>>
ThresholdPairs == {<<80, 60>>, <<81, 60>>, <<60, 80>>, <<10, 0>>}

ScoreConfigs ==
    {[NumWorkers |-> 0, MaxRetries |-> 0, InitialBackoff |-> 1,
      ValidThreshold |-> t[1], RiskyThreshold |-> t[2], ScoringWeights |-> w] :
        t \in ThresholdPairs, w \in AllWeights}

ScoreInit ==
    \E c \in ScoreConfigs, sig \in AllSignals \cup {Nil} :
        /\ PipelineInit(<<>>, c)
        /\ signals = sig
        /\ verdict = <<>>
        /\ rateLimit = Interval
        /\ WriteIdle
        /\ ApiIdle

\* verificationStatus, confidenceScore := v.DetermineStatus(result, email)
Score ==
    /\ verdict = <<>>
    /\ verdict' = DetermineStatus(cfg, signals)
    /\ UNCHANGED <<cfg, records, workerVars, chanVars, limiterVars, mainVars, signals,
                   pool, progress, pmuHolder, sinceLastProbe, rateLimit, writeVars, apiVars>>

NextScore == Score

SpecScore == ScoreInit /\ [][NextScore]_vars

(***************************************************************************)
(* The HTTP API (pkg/api/server.go): one /batch-verify request, served by  *)
(* a handler goroutine that calls VerifyWithRetry as caller number 1.      *)
(***************************************************************************)
Handler == 1

VerifyResponse(email, status, score) ==
    [Email |-> email, VerificationStatus |-> status, ConfidenceScore |-> score]

RequestLists == UNION {[1..n -> CellValues] : n \in 0..MaxRecords}

ApiInit ==
    \E emails \in RequestLists, r \in MinRetries..MaxRetriesBound,
       start \in {"received", "malformed"} :
        /\ PipelineInit(<<>>, Config(1, r))
        /\ signals = Nil
        /\ verdict = <<>>
        /\ rateLimit = Interval
        /\ WriteIdle
        /\ apiReq = emails
        /\ apiIdx = 1
        /\ apiResults = <<>>
        /\ apiPc = start

\* the request is decoded and checked, up to the loop over the emails
ApiAccept ==
    /\ apiPc \in {"received", "malformed"}
    /\ apiPc' = IF apiPc = "malformed" THEN "bad_request"
                ELSE IF Len(apiReq) = 0 THEN "bad_request"
                ELSE IF Len(apiReq) > MaxBatch THEN "bad_request"
                ELSE "loop"
    /\ UNCHANGED <<cfg, records, workerVars, chanVars, limiterVars, mainVars, scoreVars,
                   pool, progress, pmuHolder, sinceLastProbe, rateLimit, writeVars, apiReq, apiIdx,
                   apiResults>>

\* for _, email := range req.Emails: trim, skip the empty ones, call
\* VerifyWithRetry; after the last one, encode the response
ApiNext ==
    /\ apiPc = "loop"
    /\ IF apiIdx > Len(apiReq)
       THEN /\ apiPc' = "ok"
            /\ UNCHANGED <<apiIdx, pc, cur>>
       ELSE IF TrimSpace(apiReq[apiIdx]) = <<>>
       THEN /\ apiIdx' = apiIdx + 1
            /\ UNCHANGED <<apiPc, pc, cur>>
       ELSE /\ apiPc' = "verify"
            /\ pc' = [pc EXCEPT ![Handler] = "call"]
            /\ cur' = [cur EXCEPT ![Handler] =
                          [idx |-> apiIdx, email |-> TrimSpace(apiReq[apiIdx])]]
            /\ UNCHANGED apiIdx
    /\ UNCHANGED <<cfg, records, handle, attempt, err, sleepLeft, pending, callLog,
                   chanVars, limiterVars, mainVars, scoreVars, pool, progress, pmuHolder,
                   sinceLastProbe, rateLimit, writeVars, apiReq, apiResults>>

ApiAppendStopsAtError ==
    /\ apiPc = "verify"
    /\ pc[Handler] = "send"
    /\ LET ret == callLog[Handler][Len(callLog[Handler])][2]
           d == DetermineStatus(cfg, ret.result)
       IN  apiResults' = Append(apiResults,
               IF ret.err # NoError
               THEN VerifyResponse(cur[Handler].email, "error", 0)
               ELSE VerifyResponse(cur[Handler].email, d[1], d[2]))
    /\ apiIdx' = apiIdx + 1
    /\ apiPc' = IF callLog[Handler][Len(callLog[Handler])][2].err # NoError
                THEN "ok" ELSE "loop"
    /\ pc' = [pc EXCEPT ![Handler] = "recv"]
    /\ cur' = [cur EXCEPT ![Handler] = [idx |-> 0, email |-> <<>>]]
    /\ err' = [err EXCEPT ![Handler] = NoError]
    /\ attempt' = [attempt EXCEPT ![Handler] = 0]
    /\ callLog' = [callLog EXCEPT ![Handler] = <<>>]
    /\ pending' = [pending EXCEPT ![Handler] = NoResult]
    /\ UNCHANGED <<cfg, records, handle, sleepLeft, chanVars, limiterVars, mainVars,
                   scoreVars, pool, progress, pmuHolder, sinceLastProbe, rateLimit, writeVars,
                   apiReq>>

\* VerifyWithRetry has returned: the entry for this email is appended
ApiAppend ==
    /\ apiPc = "verify"
    /\ pc[Handler] = "send"
    /\ LET ret == callLog[Handler][Len(callLog[Handler])][2]
           d == DetermineStatus(cfg, ret.result)
       IN  apiResults' = Append(apiResults,
               IF ret.err # NoError
               THEN VerifyResponse(cur[Handler].email, "error", 0)
               ELSE VerifyResponse(cur[Handler].email, d[1], d[2]))
    /\ apiIdx' = apiIdx + 1
    /\ apiPc' = "loop"
    /\ pc' = [pc EXCEPT ![Handler] = "recv"]
    /\ cur' = [cur EXCEPT ![Handler] = [idx |-> 0, email |-> <<>>]]
    /\ err' = [err EXCEPT ![Handler] = NoError]
    /\ attempt' = [attempt EXCEPT ![Handler] = 0]
    /\ callLog' = [callLog EXCEPT ![Handler] = <<>>]
    /\ pending' = [pending EXCEPT ![Handler] = NoResult]
    /\ UNCHANGED <<cfg, records, handle, sleepLeft, chanVars, limiterVars, mainVars,
                   scoreVars, pool, progress, pmuHolder, sinceLastProbe, rateLimit, writeVars,
                   apiReq>>

NextApi ==
    \/ ApiAccept
    \/ ApiNext
    \/ \E w \in Workers : VerifyStart(w)
    \/ \E w \in Workers : LoopTest(w)
    \/ \E w \in Workers : RlEnter(w)
    \/ \E w \in Workers : RlLeave(w)
    \/ \E w \in Workers : ProbeStart(w)
    \/ \E w \in Workers : ProbeReturn(w)
    \/ \E w \in Workers : BackoffWake(w)
    \/ ApiAppend
    \/ Tick

SpecApi == ApiInit /\ [][NextApi]_vars

(***************************************************************************)
(* progress.update on its own: every worker stands before the send of a    *)
(* Result, of any status, that is followed by its call of update.          *)
(***************************************************************************)
Statuses == {"valid", "risky", "invalid", "error"}

\* the Result a worker sends before update(status)
Emitted(email, status) ==
    CASE status = "valid" -> VerifierResult(email, "valid", 100)
      [] status = "risky" -> VerifierResult(email, "risky", 70)
      [] OTHER -> VerifierResult(email, "invalid", 0)

ProgressInit ==
    \E n \in 1..MaxCallers : \E st \in [1..n -> Statuses] :
        /\ cfg = Config(n, 0)
        /\ records = PlainList(n)
        /\ sendIdx = n + 1
        /\ recordsClosed = TRUE
        /\ resultsClosed = FALSE
        /\ pc = [w \in 1..n |-> "send"]
        /\ cur = [w \in 1..n |-> [idx |-> w, email |-> <<Letters[w]>>]]
        /\ handle = [w \in 1..n |-> 0]
        /\ attempt = [w \in 1..n |-> 0]
        /\ err = [w \in 1..n |-> NoError]
        /\ sleepLeft = [w \in 1..n |-> 0]
        /\ pending = [w \in 1..n |->
                         [result |-> Emitted(<<Letters[w]>>, st[w]), status |-> st[w]]]
        /\ callLog = [w \in 1..n |-> <<>>]
        /\ pool = {}
        /\ rlHolder = 0
        /\ sinceLastCall = Saturated
        /\ admitGap = [w \in 1..n |-> Saturated]
        /\ progress = [processed |-> 0, valid |-> 0, risky |-> 0, invalid |-> 0, errors |-> 0]
        /\ pmuHolder = 0
        /\ resultsMap = <<>>
        /\ mainPc = "collect"
        /\ outIdx = 1
        /\ results = <<>>
        /\ sinceLastProbe = Saturated
        /\ collected = <<>>
        /\ signals = Nil
        /\ verdict = <<>>
        /\ rateLimit = Interval
        /\ WriteIdle
        /\ ApiIdle

NextProgress ==
    \/ \E w \in Workers : SendResult(w)
    \/ \E w \in Workers : UpdateLock(w)
    \/ \E w \in Workers : UpdateCount(w)

SpecProgress == ProgressInit /\ [][NextProgress]_vars

(***************************************************************************)
(* The output writer (pkg/io/writer.go): WriteResults(records, results)    *)
(* over the lists main hands to it.  The CSV and the XLSX writer run the   *)
(* same row loop; a data row is modelled by its email cell and its two     *)
(* verification cells.                                                     *)
(***************************************************************************)
\* getLowercaseValue: the values the lookup can return (the map is ranged
\* over in no fixed order when the key itself is absent)
getLowercaseValue(record, key) ==
    IF key \in DOMAIN record THEN {record[key]}
    ELSE IF \E k \in DOMAIN record : ToLower(k) = ToLower(key)
         THEN {record[k] : k \in {k \in DOMAIN record : ToLower(k) = ToLower(key)}}
         ELSE {<<>>}

\* the Result a row takes its verification cells from; i counts from 1
ResultForByIndex(i, email, res) ==
    IF i <= Len(res)
    THEN res[i]
    ELSE IF \E j \in 1..Len(res) : EqualFold(email, res[j].Email)
         THEN res[CHOOSE j \in 1..Len(res) :
                    /\ EqualFold(email, res[j].Email)
                    /\ \A k \in 1..(j - 1) : ~EqualFold(email, res[k].Email)]
         ELSE VerifierResult(email, "invalid", 0)

ResultFor(i, email, res) ==
    IF i <= Len(res) /\ EqualFold(email, res[i].Email)
    THEN res[i]
    ELSE IF \E j \in 1..Len(res) : EqualFold(email, res[j].Email)
         THEN res[CHOOSE j \in 1..Len(res) :
                    /\ EqualFold(email, res[j].Email)
                    /\ \A k \in 1..(j - 1) : ~EqualFold(email, res[k].Email)]
         ELSE VerifierResult(email, "invalid", 0)

\* one iteration of "for i, record := range records" of the writer
WriteRow ==
    /\ mainPc = "write"
    /\ writeIdx <= Len(records)
    /\ \E cell \in getLowercaseValue(records[writeIdx], EmailKey) :
          LET result == ResultFor(writeIdx, TrimSpace(cell), results)
          IN  rows' = Append(rows, [email |-> cell,
                                    status |-> result.VerificationStatus,
                                    score |-> result.ConfidenceScore])
    /\ writeIdx' = writeIdx + 1
    /\ mainPc' = IF writeIdx = Len(records) THEN "done" ELSE "write"
    /\ UNCHANGED <<cfg, records, chanVars, workerVars, pool, limiterVars, progress,
                   pmuHolder, resultsMap, outIdx, results, collected, scoreVars,
                   rateLimit, apiVars, sinceLastProbe>>

\* the records main can hand over: one email column, or two that differ in case
WrittenRecords == SimpleRecords \cup {TwoColumnRecord(<<"a">>, <<"b">>)}

WrittenLists == UNION {[1..n -> WrittenRecords] : n \in 1..MaxRecords}

\* the Results main can hand over
WrittenResults ==
    {Emitted(e, st) : e \in {<<"a">>, <<"A">>, <<"b">>}, st \in {"valid", "risky"}}

ResultLists == UNION {[1..n -> WrittenResults] : n \in 0..MaxRecords}

\* main has built results and calls WriteResults: the reassembly appends at
\* most one Result per record
WriteInit ==
    \E recs \in WrittenLists, res \in ResultLists :
        /\ Len(res) <= Len(recs)
        /\ cfg = Config(1, 0)
        /\ records = recs
        /\ sendIdx = Len(recs) + 1
        /\ recordsClosed = TRUE
        /\ resultsClosed = TRUE
        /\ pc = [w \in 1..1 |-> "exited"]
        /\ cur = [w \in 1..1 |-> [idx |-> 0, email |-> <<>>]]
        /\ handle = [w \in 1..1 |-> 0]
        /\ attempt = [w \in 1..1 |-> 0]
        /\ err = [w \in 1..1 |-> NoError]
        /\ sleepLeft = [w \in 1..1 |-> 0]
        /\ pending = [w \in 1..1 |-> NoResult]
        /\ callLog = [w \in 1..1 |-> <<>>]
        /\ pool = {}
        /\ rlHolder = 0
        /\ sinceLastCall = Saturated
        /\ admitGap = [w \in 1..1 |-> Saturated]
        /\ progress = [processed |-> 0, valid |-> 0, risky |-> 0, invalid |-> 0, errors |-> 0]
        /\ pmuHolder = 0
        /\ resultsMap = <<>>
        /\ mainPc = "write"
        /\ outIdx = Len(recs) + 1
        /\ results = res
        /\ sinceLastProbe = Saturated
        /\ collected = <<>>
        /\ signals = Nil
        /\ verdict = <<>>
        /\ rateLimit = Interval
        /\ WriteIdle
        /\ ApiIdle

NextWrite == WriteRow

SpecWrite == WriteInit /\ [][NextWrite]_vars

(***************************************************************************)
(* Vocabulary of the properties.                                           *)
(***************************************************************************)
\* the email of a record with one email column
OnlyEmail(i) == CHOOSE e \in EmailOf(records[i]) : TRUE

\* the records with a non-empty email, in input order
WithEmail == SelectSeq([i \in 1..Len(records) |-> i], LAMBDA i : OnlyEmail(i) # <<>>)

KeyOf(i) == ToLower(OnlyEmail(i))

\* the positions in the arrival order of the Results sent for a set of records
Arrivals(idxs) == {p \in 1..Len(collected) : collected[p].idx \in idxs}

Latest(ps) == CHOOSE p \in ps : \A q \in ps : q <= p

\* the Result a worker sent for record i
MadeFor(i) ==
    IF Arrivals({i}) = {} THEN NoResult ELSE collected[Latest(Arrivals({i}))].result

Failed(i) ==
    /\ Arrivals({i}) # {}
    /\ collected[Latest(Arrivals({i}))].status = "error"

\* the records that normalize to the same key as record i
SameKey(i) == {k \in 1..Len(records) : OnlyEmail(k) # <<>> /\ KeyOf(k) = KeyOf(i)}

InCall == {"loop", "rl_lock", "rl_wait", "probe", "probing", "backoff"}

Count(log, event) == Cardinality({p \in 1..Len(log) : log[p] = event})

Outcomes(log) == SelectSeq(log, LAMBDA e : e[1] = "outcome")

\* the five retryable patterns of the specification
MatchesRetryablePattern(e) ==
    \E pat \in {<<"timeout">>, <<"i/o", "error">>, <<"connection", "refused">>,
                <<"no", "such", "host">>, <<"network", "is", "unreachable">>} :
        Contains(e, pat)

(***************************************************************************)
(* C1.  As claimed: when the batch is done the output has one entry per    *)
(* record with a non-empty email, and entry j is the Result of the j-th    *)
(* such record (the Result its worker sent, carrying its email).           *)
(***************************************************************************)
C1_OutputIsOwnResult ==
    mainPc = "done" =>
        /\ Len(results) = Len(WithEmail)
        /\ \A j \in 1..Len(WithEmail) :
              LET i == WithEmail[j] IN
              /\ results[j].Email = OnlyEmail(i)
              /\ MadeFor(i) # NoResult => results[j] = MadeFor(i)

(***************************************************************************)
(* C1, amended.  The output has one entry per record with a non-empty      *)
(* email, in input order, and entry j is the Result that arrived last      *)
(* among the records normalizing to the same key as the j-th such record   *)
(* (its own Result when no other record shares the key), or the synthetic  *)
(* invalid/0 Result when none arrived.                                     *)
(***************************************************************************)
C1_OutputFollowsKeyedLookup ==
    mainPc = "done" =>
        /\ Len(results) = Len(WithEmail)
        /\ \A j \in 1..Len(WithEmail) :
              LET i == WithEmail[j]
                  arrived == Arrivals(SameKey(i))
              IN  IF arrived = {}
                  THEN results[j] = VerifierResult(OnlyEmail(i), "invalid", 0)
                  ELSE results[j] = collected[Latest(arrived)].result

\* two records with different keys, completed in the reverse of the input order
C1_Witness ==
    /\ mainPc = "done"
    /\ Len(results) = 2
    /\ Len(collected) = 2
    /\ collected[1].idx = 2
    /\ KeyOf(1) # KeyOf(2)
    /\ results[1] = collected[2].result
    /\ results[1] # results[2]

(***************************************************************************)
(* C2.  One call of VerifyWithRetry starts at most maxRetries + 1 probes,  *)
(* and a further attempt is under way only after an attempt that ended in  *)
(* an error matching a retryable pattern: a fatal error at attempt k       *)
(* leaves no attempt k + 1.                                                *)
(***************************************************************************)
C2_AttemptsBounded ==
    \A w \in Workers :
        /\ Count(callLog[w], <<"probe">>) <= cfg.MaxRetries + 1
        /\ pc[w] \in InCall => Count(callLog[w], <<"probe">>) \in {attempt[w], attempt[w] + 1}
        /\ (pc[w] \in InCall /\ err[w] # NoError) => MatchesRetryablePattern(err[w])

\* with a retry left, a fatal error at the first attempt ended the call
C2_Witness ==
    \E w \in Workers :
        /\ cfg.MaxRetries >= 1
        /\ pc[w] = "send"
        /\ Count(callLog[w], <<"probe">>) = 1
        /\ err[w] # NoError
        /\ ~MatchesRetryablePattern(err[w])

(***************************************************************************)
(* C3.  As claimed: a probe invocation starts at least the limiter         *)
(* interval after the previous probe invocation of any worker.             *)
(***************************************************************************)
C3_ProbeStartsSpaced ==
    [][\A w \in Workers :
          (pc[w] = "probe" /\ pc'[w] = "probing") => sinceLastProbe >= Interval]_vars

(***************************************************************************)
(* C3, amended.  Every probe invocation comes directly after a gate        *)
(* admission of its own worker, and that admission was at least the        *)
(* interval after the previous admission; the probe starts themselves,     *)
(* which happen after the gate is released, may be closer than that.       *)
(***************************************************************************)
C3_ProbeFollowsSpacedAdmission ==
    \A w \in Workers :
        /\ \A p \in 1..Len(callLog[w]) :
              callLog[w][p] = <<"probe">> => (p > 1 /\ callLog[w][p - 1] = <<"wait">>)
        /\ pc[w] \in {"probe", "probing"} => admitGap[w] >= Interval

\* one worker started its probe less than the interval ago and another one,
\* admitted since, is about to start its own
C3_Witness ==
    \E w1, w2 \in Workers :
        /\ w1 # w2
        /\ pc[w1] = "probing"
        /\ pc[w2] = "probe"
        /\ sinceLastProbe < Interval
        /\ admitGap[w1] >= Interval
        /\ admitGap[w2] >= Interval

(***************************************************************************)
(* C4.  Each write of lastCall happens at least the interval after the     *)
(* previous one, and a caller of wait() only ever waits or is admitted:    *)
(* it leaves the gate by no other way than to its probe.                   *)
(***************************************************************************)
C4_AdmissionsSpaced ==
    [][\A w \in Workers :
          /\ (pc[w] = "rl_wait" /\ pc'[w] = "probe") => sinceLastCall >= Interval
          /\ pc[w] \in {"rl_lock", "rl_wait"} => pc'[w] \in {"rl_lock", "rl_wait", "probe"}]_vars

\* the gate holds one worker asleep and keeps another out of the mutex,
\* right after it admitted a probe
C4_Witness ==
    \E w1, w2 \in Workers :
        /\ w1 # w2
        /\ pc[w1] = "rl_wait"
        /\ sleepLeft[w1] > 0
        /\ rlHolder = w1
        /\ pc[w2] = "rl_lock"
        /\ sinceLastCall < Interval

(***************************************************************************)
(* C7.  A panic of the probe never unwinds the worker: the attempt ends    *)
(* with an error that carries the panic value, and the worker goes on to   *)
(* report a failed verification.                                           *)
(***************************************************************************)
C7_PanicContained ==
    \A w \in Workers :
        /\ pc[w] # "panicked"
        /\ (/\ pc[w] \in InCall \cup {"send"}
            /\ Outcomes(callLog[w]) # <<>>
            /\ Outcomes(callLog[w])[Len(Outcomes(callLog[w]))][2] = "panic")
           => /\ \E r \in PanicValues : err[w] = <<"panic", "during", "verification:">> \o r
              /\ pc[w] = "send" => pending[w].status = "error"

C7_Witness ==
    \E w \in Workers :
        /\ pc[w] = "send"
        /\ Count(callLog[w], <<"probe">>) = 1
        /\ Len(Outcomes(callLog[w])) = 1
        /\ Outcomes(callLog[w])[1][2] = "panic"
        /\ err[w] = <<"panic", "during", "verification:", "nil", "pointer", "dereference">>
        /\ pending[w].result.ConfidenceScore = 0

(***************************************************************************)
(* C8.  Outside a call of VerifyWithRetry no worker holds a probe handle:  *)
(* whichever way the call ended, the handle went back to the pool.  No     *)
(* handle is at once pooled and held, or held by two workers.              *)
(***************************************************************************)
C8_HandleReturned ==
    /\ \A w \in Workers : pc[w] \notin InCall => handle[w] = 0
    /\ \A w \in Workers : pc[w] \in InCall => handle[w] # 0
    /\ pool \cap HeldHandles = {}
    /\ \A w1, w2 \in Workers : (w1 # w2 /\ handle[w1] # 0) => handle[w1] # handle[w2]

\* a call that ended in an error left its handle in the pool
C8_Witness ==
    \E w \in Workers :
        /\ pc[w] = "send"
        /\ err[w] # NoError
        /\ handle[w] = 0
        /\ pool # {}
        /\ Count(callLog[w], <<"probe">>) >= 1

(***************************************************************************)
(* C5.  With at least one worker, and probes that return, the batch always *)
(* completes: every record is taken from the queue, the queue is closed,   *)
(* every worker exits, the results stream is closed and the output is      *)
(* produced.                                                               *)
(***************************************************************************)
C5_BatchCompletes ==
    cfg.NumWorkers >= 1 =>
        <>(/\ sendIdx > Len(records)
           /\ recordsClosed
           /\ \A w \in Workers : pc[w] = "exited"
           /\ resultsClosed
           /\ mainPc = "done")

\* two workers took one record each and the run completed
C5_Witness ==
    /\ cfg.NumWorkers = 2
    /\ Len(records) = 2
    /\ {collected[p].idx : p \in 1..Len(collected)} = {1, 2}
    /\ \A w \in Workers : pc[w] = "exited"
    /\ resultsClosed
    /\ mainPc = "done"
    /\ Len(results) = 2

(***************************************************************************)
(* C6.  As claimed: a failed verification does not stop the others (with a *)
(* worker running, every record with an email is processed), the output    *)
(* misses no entry, and the entry of a failed record has score 0 and       *)
(* status invalid or error.                                                *)
(***************************************************************************)
C6_FailedRecordScoresZero ==
    mainPc = "done" =>
        /\ Len(results) = Len(WithEmail)
        /\ cfg.NumWorkers >= 1 => \A j \in 1..Len(WithEmail) : Arrivals({WithEmail[j]}) # {}
        /\ \A j \in 1..Len(WithEmail) :
              Failed(WithEmail[j]) =>
                  /\ results[j].ConfidenceScore = 0
                  /\ results[j].VerificationStatus \in {"invalid", "error"}

(***************************************************************************)
(* C6, amended.  A failed verification does not stop the others, the       *)
(* output misses no entry, and the entry of a failed record has score 0    *)
(* and status invalid or error unless the Result of another record with    *)
(* the same normalized email was collected after its own: then its entry   *)
(* is that Result.                                                         *)
(***************************************************************************)
C6_FailedRecordKeepsEntry ==
    mainPc = "done" =>
        /\ Len(results) = Len(WithEmail)
        /\ cfg.NumWorkers >= 1 => \A j \in 1..Len(WithEmail) : Arrivals({WithEmail[j]}) # {}
        /\ \A j \in 1..Len(WithEmail) :
              LET i == WithEmail[j]
                  own == Latest(Arrivals({i}))
                  later == {p \in Arrivals(SameKey(i) \ {i}) : p > own}
              IN  Failed(i) =>
                      IF later = {}
                      THEN /\ results[j].ConfidenceScore = 0
                           /\ results[j].VerificationStatus \in {"invalid", "error"}
                           /\ results[j].Email = OnlyEmail(i)
                      ELSE results[j] = collected[Latest(later)].result

\* the first record failed, the second one was verified, both are in the output
C6_Witness ==
    /\ mainPc = "done"
    /\ Len(results) = 2
    /\ Len(WithEmail) = 2
    /\ Failed(1)
    /\ Arrivals({2}) # {}
    /\ ~Failed(2)
    /\ results[1].ConfidenceScore = 0
    /\ results[1].VerificationStatus = "invalid"
    /\ results[2].ConfidenceScore > 0

(***************************************************************************)
(* C9.  The score DetermineStatus returns lies in 0..100, for every        *)
(* combination of signals, the missing signal set included, and every      *)
(* weight, however large or negative.                                      *)
(***************************************************************************)
C9_ScoreInRange ==
    verdict # <<>> => (verdict[2] >= 0 /\ verdict[2] <= 100)

\* the weights add up beyond 100 and the score returned is 100
C9_Witness ==
    /\ verdict # <<>>
    /\ signals # Nil
    /\ signals.SyntaxValid
    /\ signals.Reachable # "no"
    /\ ~signals.Disposable
    /\ WeightedScore(cfg, signals) > 100
    /\ verdict[2] = 100

(***************************************************************************)
(* C10.  As claimed: signals that are syntax-invalid, unreachable (no) or  *)
(* disposable classify as invalid under every weight and threshold; a      *)
(* disposable address scores 10 and the other two score 0, whatever the    *)
(* other signals are.                                                      *)
(***************************************************************************)
C10_DominatingRules ==
    (verdict # <<>> /\ signals # Nil) =>
        /\ (~signals.SyntaxValid \/ signals.Reachable = "no" \/ signals.Disposable)
              => verdict[1] = "invalid"
        /\ signals.Disposable => verdict[2] = 10
        /\ (~signals.SyntaxValid \/ signals.Reachable = "no") => verdict[2] = 0

(***************************************************************************)
(* C10, amended.  The three signals classify as invalid under every weight *)
(* and threshold; syntax-invalid and unreachable (no) score 0, and a        *)
(* disposable address scores 10 unless it is also syntax-invalid or        *)
(* unreachable, in which case it scores 0.                                 *)
(***************************************************************************)
C10_DominatingRulesInOrder ==
    (verdict # <<>> /\ signals # Nil) =>
        /\ (~signals.SyntaxValid \/ signals.Reachable = "no" \/ signals.Disposable)
              => verdict[1] = "invalid"
        /\ (~signals.SyntaxValid \/ signals.Reachable = "no") => verdict[2] = 0
        /\ (signals.Disposable /\ signals.SyntaxValid /\ signals.Reachable # "no")
              => verdict[2] = 10

\* a disposable address whose weights alone would reach the valid threshold
C10_Witness ==
    /\ verdict = <<"invalid", 10>>
    /\ signals # Nil
    /\ signals.Disposable
    /\ signals.SyntaxValid
    /\ signals.Reachable = "yes"
    /\ Max(0, Min(WeightedScore(cfg, signals), 100)) >= cfg.ValidThreshold

(***************************************************************************)
(* C11.  For signals that are syntax-valid, not disposable and not         *)
(* unreachable, the score is 50 plus the weights whose condition holds     *)
(* (the sum taken in the program's int), clamped to 0..100, and the status *)
(* is valid from the valid threshold up, else risky from the risky         *)
(* threshold up, else invalid.                                             *)
(***************************************************************************)
RawScore ==
    LET w == cfg.ScoringWeights
    IN  50 + (IF signals.HasMxRecords THEN w.HasMxRecords ELSE 0)
           + (IF signals.Reachable = "yes" THEN w.ReachableYes ELSE 0)
           + (IF signals.Reachable = "unknown" THEN w.ReachableUnknown ELSE 0)
           + (IF signals.RoleAccount THEN w.RoleAccount ELSE 0)
           + (IF signals.Free THEN w.FreeProvider ELSE 0)
           + (IF signals.Suggestion # "" THEN w.Suggestion ELSE 0)

ClampedScore ==
    LET raw == WrapInt(RawScore)
    IN  IF raw < 0 THEN 0 ELSE IF raw > 100 THEN 100 ELSE raw

Weighed ==
    /\ verdict # <<>>
    /\ signals # Nil
    /\ signals.SyntaxValid
    /\ ~signals.Disposable
    /\ signals.Reachable # "no"

C11_WeightedClassification ==
    Weighed =>
        /\ verdict[2] = ClampedScore
        /\ verdict[1] = "valid" <=> verdict[2] >= cfg.ValidThreshold
        /\ verdict[1] = "risky" <=>
              (verdict[2] < cfg.ValidThreshold /\ verdict[2] >= cfg.RiskyThreshold)
        /\ verdict[1] = "invalid" <=>
              (verdict[2] < cfg.ValidThreshold /\ verdict[2] < cfg.RiskyThreshold)

\* raw 50 + 20 + 20 - 10 = 80 under the valid threshold 81 is risky
C11_Witness ==
    /\ Weighed
    /\ signals.HasMxRecords /\ signals.Reachable = "unknown" /\ signals.RoleAccount
    /\ ~signals.Free /\ signals.Suggestion = ""
    /\ RawScore = 80
    /\ cfg.ValidThreshold = 81
    /\ verdict = <<"risky", 80>>

(***************************************************************************)
(* Vocabulary of one call of VerifyWithRetry.                              *)
(***************************************************************************)
\* the durations of the backoff sleeps of a call, in order
Sleeps(log) ==
    LET ss == SelectSeq(log, LAMBDA e : e[1] = "sleep")
    IN  [a \in 1..Len(ss) |-> ss[a][2]]

\* the call has returned after every attempt failed with a retryable error
Exhausted(w) ==
    /\ pc[w] = "send"
    /\ Outcomes(callLog[w]) # <<>>
    /\ \A a \in 1..Len(Outcomes(callLog[w])) :
          /\ Outcomes(callLog[w])[a][3] # NoError
          /\ MatchesRetryablePattern(Outcomes(callLog[w])[a][3])

(***************************************************************************)
(* C12.  As claimed: when every attempt fails with a retryable error the   *)
(* call makes maxRetries + 1 attempts and sleeps only between them:        *)
(* maxRetries sleeps of initialBackoff * 2^0, ..., initialBackoff *        *)
(* 2^(maxRetries - 1), and none after the last attempt.                    *)
(***************************************************************************)
C12_SleepsOnlyBetweenAttempts ==
    \A w \in Workers :
        Exhausted(w) =>
            /\ Count(callLog[w], <<"probe">>) = cfg.MaxRetries + 1
            /\ Len(Sleeps(callLog[w])) = cfg.MaxRetries
            /\ \A a \in 1..Len(Sleeps(callLog[w])) :
                  Sleeps(callLog[w])[a] = cfg.InitialBackoff * 2^(a - 1)

(***************************************************************************)
(* C13.  When two records normalize to the same email key, the lookup      *)
(* holds for that key the Result collected last, the output has an entry   *)
(* for each of the two records, and both entries carry the status and the  *)
(* score of that surviving Result.                                         *)
(***************************************************************************)
C13_DuplicatesShareSurvivor ==
    mainPc = "done" =>
        \A j1, j2 \in 1..Len(WithEmail) :
            LET i1 == WithEmail[j1]
                i2 == WithEmail[j2]
                arrived == Arrivals(SameKey(i1))
            IN  (j1 < j2 /\ KeyOf(i1) = KeyOf(i2) /\ arrived # {}) =>
                    LET last == collected[Latest(arrived)].result IN
                    /\ Len(results) = Len(WithEmail)
                    /\ KeyOf(i1) \in DOMAIN resultsMap
                    /\ resultsMap[KeyOf(i1)] = last
                    /\ results[j1].VerificationStatus = last.VerificationStatus
                    /\ results[j1].ConfidenceScore = last.ConfidenceScore
                    /\ results[j2].VerificationStatus = last.VerificationStatus
                    /\ results[j2].ConfidenceScore = last.ConfidenceScore

\* two records with one key; the second one's Result arrived first and lost
C13_Witness ==
    /\ mainPc = "done"
    /\ Len(WithEmail) = 2
    /\ KeyOf(1) = KeyOf(2)
    /\ Len(collected) = 2
    /\ collected[1].idx = 2
    /\ collected[1].result.ConfidenceScore # collected[2].result.ConfidenceScore
    /\ results = <<collected[2].result, collected[2].result>>

C15_ReturnsLastError ==
    \A w \in Workers :
        Exhausted(w) =>
            LET outs == Outcomes(callLog[w])
                ret == callLog[w][Len(callLog[w])]
            IN  /\ ret[1] = "return"
                /\ ret[2].result = Nil
                /\ ret[2].err = outs[Len(outs)][3]
                /\ err[w] = outs[Len(outs)][3]

\* two attempts failed with different retryable errors
C15_Witness ==
    \E w \in Workers :
        /\ Exhausted(w)
        /\ Len(Outcomes(callLog[w])) = 2
        /\ Outcomes(callLog[w])[1][3] # Outcomes(callLog[w])[2][3]
        /\ callLog[w][Len(callLog[w])] = Returned(Nil, Outcomes(callLog[w])[2][3])

(***************************************************************************)
(* C16.  The verification_status of every result the tool emits, in the    *)
(* ordered output of the command line run and in the entries of an API     *)
(* response, is valid, risky or invalid, and its confidence_score lies in  *)
(* 0..100.                                                                 *)
(***************************************************************************)
C16_EmittedStatusAndScore ==
    \A e \in {results[j] : j \in 1..Len(results)}
                 \cup {apiResults[j] : j \in 1..Len(apiResults)} :
        /\ e.VerificationStatus \in {"valid", "risky", "invalid"}
        /\ e.ConfidenceScore >= 0
        /\ e.ConfidenceScore <= 100

(***************************************************************************)
(* C17.  As claimed: the limiter paces by the rate limit the configuration *)
(* asks for: a caller that finds the previous admission less than that     *)
(* interval old sleeps for the rest of that interval.                      *)
(***************************************************************************)
C17_IntervalFromConfiguration ==
    [][\A w \in Workers :
          (/\ pc[w] = "rl_lock"
           /\ pc'[w] = "rl_wait"
           /\ sinceLastCall < Interval
           /\ sinceLastCall < rateLimit)
          => sleepLeft'[w] = rateLimit - sinceLastCall]_vars

(***************************************************************************)
(* C18.  The results stream is closed only after every worker has exited   *)
(* (and so, where there are workers, after the input queue was closed and  *)
(* drained) and every Result produced has been collected; nothing is sent  *)
(* on it after the close, and the ordered output is built only after it.   *)
(***************************************************************************)
C18_ClosedState ==
    /\ resultsClosed =>
          /\ \A w \in Workers : pc[w] = "exited"
          /\ cfg.NumWorkers >= 1 => (recordsClosed /\ sendIdx > Len(records))
          /\ cfg.NumWorkers >= 1 => Len(collected) = Len(WithEmail)
    /\ (mainPc # "collect" \/ results # <<>>) => resultsClosed

C18_ClosedStep ==
    resultsClosed => (resultsClosed' /\ collected' = collected /\ resultsMap' = resultsMap)

LastOutcome(w) == Outcomes(callLog[w])[Len(Outcomes(callLog[w]))]

PanickedEarly(w) ==
    /\ pc[w] \in InCall \cup {"send"}
    /\ Outcomes(callLog[w]) # <<>>
    /\ LastOutcome(w)[2] = "panic"
    /\ Len(Outcomes(callLog[w])) <= cfg.MaxRetries

C19_PanicAlwaysRetried ==
    \A w \in Workers : PanickedEarly(w) => pc[w] # "send"

(***************************************************************************)
(* C19, amended.  A panic of the probe becomes the error "panic during     *)
(* verification: <value>", classified like any other error: on an attempt  *)
(* that is not the last one the call backs off and goes on to the next     *)
(* attempt if that text contains a retryable pattern, and returns the      *)
(* error at once, without a sleep, if it does not.                         *)
(***************************************************************************)
C19_PanicRetriedByText ==
    \A w \in Workers :
        PanickedEarly(w) =>
            LET log == callLog[w]
                last == CHOOSE p \in 1..Len(log) :
                            /\ log[p][1] = "outcome"
                            /\ \A q \in (p + 1)..Len(log) : log[q][1] # "outcome"
            IN  IF MatchesRetryablePattern(LastOutcome(w)[3])
                THEN /\ pc[w] # "send"
                     /\ log[last + 1] = <<"sleep", cfg.InitialBackoff * 2^(Len(Outcomes(log)) - 1)>>
                ELSE /\ pc[w] = "send"
                     /\ err[w] = LastOutcome(w)[3]
                     /\ log[last + 1] = Returned(Nil, LastOutcome(w)[3])

\* the first attempt panicked with a timeout and the second one is running
C19_Witness ==
    \E w \in Workers :
        /\ pc[w] = "probing"
        /\ attempt[w] = 1
        /\ Len(Outcomes(callLog[w])) = 1
        /\ LastOutcome(w)[2] = "panic"
        /\ MatchesRetryablePattern(LastOutcome(w)[3])

(***************************************************************************)
(* C20.  The backoff sleep after a retryable failure of attempt a lasts    *)
(* initialBackoff * 2^a: the first sleep of a call is initialBackoff and   *)
(* each further one is twice the one before.                               *)
(***************************************************************************)
C20_BackoffDoubles ==
    \A w \in Workers :
        LET ss == Sleeps(callLog[w]) IN
        /\ \A a \in 1..Len(ss) : ss[a] = cfg.InitialBackoff * 2^(a - 1)
        /\ \A a \in 2..Len(ss) : ss[a] = 2 * ss[a - 1]
        /\ pc[w] = "backoff" =>
              /\ Len(ss) = attempt[w] + 1
              /\ sleepLeft[w] <= ss[Len(ss)]

\* with initial_backoff 2, the sleeps of a call were 2 and 4
C20_Witness ==
    \E w \in Workers :
        /\ cfg.InitialBackoff = 2
        /\ Len(Sleeps(callLog[w])) = 2
        /\ Sleeps(callLog[w])[1] = 2
        /\ Sleeps(callLog[w])[2] = 4

(***************************************************************************)
(* C21.  Within one call of VerifyWithRetry the completed wait() calls and *)
(* the probe attempts alternate, wait first: every probe attempt comes     *)
(* directly after a completed wait() of the same caller, and a call that   *)
(* has returned made as many wait() calls as probe attempts.               *)
(***************************************************************************)
WaitsAndProbes(log) == SelectSeq(log, LAMBDA e : e[1] \in {"wait", "probe"})

C21_WaitBeforeEveryProbe ==
    \A w \in Workers :
        LET log == callLog[w]
            wp == WaitsAndProbes(log)
        IN  /\ \A p \in 1..Len(wp) :
                  wp[p] = IF p % 2 = 1 THEN <<"wait">> ELSE <<"probe">>
            /\ \A p \in 1..Len(log) :
                  log[p] = <<"probe">> => (p > 1 /\ log[p - 1] = <<"wait">>)
            /\ Count(log, <<"wait">>) =
                  Count(log, <<"probe">>) + (IF pc[w] = "probe" THEN 1 ELSE 0)
            /\ pc[w] = "probing" => Count(log, <<"probe">>) = attempt[w] + 1

\* a call that returned after a retry: two waits, two probes
C21_Witness ==
    \E w \in Workers :
        /\ pc[w] = "send"
        /\ WaitsAndProbes(callLog[w]) = <<<<"wait">>, <<"probe">>, <<"wait">>, <<"probe">>>>

(***************************************************************************)
(* C22.  An attempt that ends in an error whose text contains none of the  *)
(* five retryable patterns ends the call at once: the error is returned    *)
(* and no backoff sleep is made.  An attempt that ends in an error whose   *)
(* text contains one of them is followed by a backoff sleep and, when an   *)
(* attempt is left, by the next attempt.                                   *)
(***************************************************************************)
C22_RetryableByText ==
    \A w \in Workers :
        LET log == callLog[w] IN
        \A p \in 1..Len(log) :
            (log[p][1] = "outcome" /\ log[p][3] # NoError) =>
                LET e == log[p][3]
                    k == Len(Outcomes(SubSeq(log, 1, p)))
                IN  IF MatchesRetryablePattern(e)
                    THEN /\ p < Len(log)
                         /\ log[p + 1][1] = "sleep"
                         /\ k <= cfg.MaxRetries =>
                               IF p + 1 < Len(log)
                               THEN log[p + 2] = <<"wait">>
                               ELSE pc[w] \in {"backoff", "loop", "rl_lock", "rl_wait"}
                    ELSE /\ p + 1 = Len(log)
                         /\ log[p + 1] = Returned(Nil, e)
                         /\ pc[w] = "send"
                         /\ err[w] = e

\* a refused connection was retried, then an invalid address ended the call
C22_Witness ==
    \E w \in Workers :
        /\ pc[w] = "send"
        /\ Len(Outcomes(callLog[w])) = 2
        /\ Outcomes(callLog[w])[1][3] = <<"dial", "tcp:", "connection", "refused">>
        /\ Outcomes(callLog[w])[2][3] = <<"invalid", "address">>
        /\ Len(Sleeps(callLog[w])) = 1
        /\ err[w] = <<"invalid", "address">>

(***************************************************************************)
(* C23.  The rules are tried in the order nil, syntax-invalid,             *)
(* reachability no, disposable, and the first that matches decides: nil    *)
(* signals give (invalid, 0); syntax-invalid signals give (invalid, 0)     *)
(* whatever the other fields are, a disposable address included;           *)
(* reachability no gives (invalid, 0) unless an earlier rule matched, and  *)
(* a disposable address gives (invalid, 10) unless an earlier rule did.    *)
(***************************************************************************)
C23_FirstRuleDecides ==
    verdict # <<>> =>
        IF signals = Nil THEN verdict = <<"invalid", 0>>
        ELSE IF ~signals.SyntaxValid THEN verdict = <<"invalid", 0>>
        ELSE IF signals.Reachable = "no" THEN verdict = <<"invalid", 0>>
        ELSE signals.Disposable => verdict = <<"invalid", 10>>

\* a syntax-invalid, disposable, reachable address with records scores 0
C23_Witness ==
    /\ verdict = <<"invalid", 0>>
    /\ signals # Nil
    /\ ~signals.SyntaxValid
    /\ signals.Disposable
    /\ signals.Reachable = "yes"
    /\ signals.HasMxRecords

(***************************************************************************)
(* C24.  At most one caller is inside the rate limiter's gate, between     *)
(* taking its lock and releasing it (the sleep and the write of lastCall   *)
(* included), and that caller is the holder of the lock; lastCall is       *)
(* written by the holder only.  Which of the waiting callers is let in     *)
(* next is not constrained.                                                *)
(***************************************************************************)
InGate == {w \in Workers : pc[w] = "rl_wait"}

C24_GateState ==
    /\ Cardinality(InGate) <= 1
    /\ \A w \in Workers : pc[w] = "rl_wait" <=> rlHolder = w
    /\ rlHolder \in Workers \cup {0}

C24_GateStep ==
    sinceLastCall' = 0 =>
        \/ sinceLastCall = 0
        \/ \E w \in Workers : rlHolder = w /\ pc[w] = "rl_wait" /\ pc'[w] = "probe"

C24_OneCallerInGate == []C24_GateState /\ [][C24_GateStep]_vars

\* the second worker sleeps inside the gate while the first one, which took
\* the first record, waits for the lock
C24_Witness ==
    /\ cfg.NumWorkers = 2
    /\ pc[1] = "rl_lock"
    /\ cur[1].idx = 1
    /\ pc[2] = "rl_wait"
    /\ rlHolder = 2
    /\ sleepLeft[2] > 0

(***************************************************************************)
(* C25.  No probe handle is held by two calls of VerifyWithRetry at once:  *)
(* the handle a call obtains is held by no other call at that moment, and  *)
(* a handle held by a call is handed out again only after its holder put   *)
(* it back.                                                                *)
(***************************************************************************)
Holders(h) == {w \in Workers : handle[w] = h}

C25_HandleState == \A h \in Handles : Cardinality(Holders(h)) <= 1

C25_HandleStep ==
    \A w \in Workers :
        (handle[w] = 0 /\ handle'[w] # 0) =>
            /\ \A v \in Workers : handle[v] # handle'[w]
            /\ handle'[w] \notin pool'

C25_NoSharedHandle == []C25_HandleState /\ [][C25_HandleStep]_vars

\* two calls probe at once, each on a handle of its own
C25_Witness ==
    /\ cfg.NumWorkers = 2
    /\ cfg.MaxRetries = 0
    /\ pc[1] = "probing"
    /\ pc[2] = "probing"
    /\ handle[1] # 0
    /\ handle[2] # 0
    /\ handle[1] # handle[2]
    /\ pool = {}

(***************************************************************************)
(* C26.  No increment of update is lost, however the calls interleave:     *)
(* processed is the number of completed calls, each status counter is the  *)
(* number of completed calls with its status, and whenever the lock is     *)
(* free processed is the sum of the four status counters.                  *)
(***************************************************************************)
\* the calls of update(status) that have completed: those made after a send,
\* less those still running or still to be made
Completed(status) ==
    Cardinality({p \in 1..Len(collected) : collected[p].status = status})
        - Cardinality({w \in Workers : /\ pc[w] \in {"update", "counting"}
                                       /\ pending[w].status = status})

C26_NoLostIncrement ==
    /\ progress.valid = Completed("valid")
    /\ progress.risky = Completed("risky")
    /\ progress.invalid = Completed("invalid")
    /\ progress.errors = Completed("error")
    /\ progress.processed =
          Completed("valid") + Completed("risky") + Completed("invalid") + Completed("error")
    /\ pmuHolder = 0 =>
          progress.processed =
              progress.valid + progress.risky + progress.invalid + progress.errors

\* three calls with three statuses have completed, the risky one's send first
C26_Witness ==
    /\ cfg.NumWorkers = 3
    /\ \A w \in Workers : pc[w] = "recv"
    /\ collected[1].status = "risky"
    /\ progress = [processed |-> 3, valid |-> 1, risky |-> 1, invalid |-> 0, errors |-> 1]

(***************************************************************************)
(* C27.  When VerifyWithRetry returns an error the worker emits the Result *)
(* (email, invalid, 0) and reports the status error: the errors counter    *)
(* grows by one for that record and no other status counter does, and the  *)
(* worker goes on to its next record.  When the workers have exited, the   *)
(* errors counter is the number of records whose verification failed.      *)
(***************************************************************************)
FailedRecords == {i \in 1..Len(records) : Failed(i)}

C27_FailureState ==
    /\ \A w \in Workers :
          pc[w] = "send" =>
              /\ err[w] # NoError <=> pending[w].status = "error"
              /\ err[w] # NoError =>
                    pending[w].result = VerifierResult(cur[w].email, "invalid", 0)
    /\ \A p \in 1..Len(collected) :
          collected[p].status = "error" =>
              /\ collected[p].result.ConfidenceScore = 0
              /\ collected[p].result.VerificationStatus \in {"invalid", "error"}
    /\ progress.errors = Completed("error")
    /\ progress.invalid = Completed("invalid")
    /\ progress.valid = Completed("valid")
    /\ progress.risky = Completed("risky")
    /\ (cfg.NumWorkers >= 1 /\ \A w \in Workers : pc[w] = "exited")
          => progress.errors = Cardinality(FailedRecords)

C27_FailureStep ==
    \A w \in Workers :
        (pc[w] = "counting" /\ pc'[w] # "counting") =>
            /\ pc'[w] = "recv"
            /\ pending[w].status = "error" =>
                  progress' = [progress EXCEPT !.processed = @ + 1, !.errors = @ + 1]

C27_FailureCountedOnce == []C27_FailureState /\ [][C27_FailureStep]_vars

\* one worker: its first record failed, it went on and verified the second
C27_Witness ==
    /\ cfg.NumWorkers = 1
    /\ pc[1] = "exited"
    /\ Len(collected) = 2
    /\ collected[1].idx = 1
    /\ collected[1].status = "error"
    /\ collected[2].status = "valid"
    /\ progress = [processed |-> 2, valid |-> 1, risky |-> 0, invalid |-> 0, errors |-> 1]

(***************************************************************************)
(* C28.  As claimed: when the reassembly finds no entry under the key of a *)
(* record's email it appends the Result (email, invalid, 0) and goes on;   *)
(* with at least one worker (a reassembly is reached only when every probe *)
(* call has returned) it always finds an entry.                            *)
(***************************************************************************)
C28_FallbackOnlyWithoutWorkers ==
    [][(mainPc = "assemble" /\ Len(results') = Len(results) + 1) =>
          LET r == results'[Len(results')] IN
          /\ mainPc' \in {"assemble", "done"}
          /\ ToLower(r.Email) \notin DOMAIN resultsMap =>
                /\ r.Email \in EmailOf(records[outIdx]) \ {<<>>}
                /\ r.VerificationStatus = "invalid"
                /\ r.ConfidenceScore = 0
          /\ cfg.NumWorkers >= 1 => ToLower(r.Email) \in DOMAIN resultsMap]_vars

(***************************************************************************)
(* C29.  The records that have left the queue and whose Result has not yet *)
(* been sent are never more than the configured workers, each of them is   *)
(* with a worker of its own, and the worker threads are the same from the  *)
(* start of the batch on: none is added, and none ends before the queue is *)
(* closed.                                                                 *)
(***************************************************************************)
\* the records taken from the queue for verification, less the Results sent
InFlight ==
    Cardinality({i \in 1..(sendIdx - 1) : OnlyEmail(i) # <<>>}) - Len(collected)

Busy == {w \in Workers : pc[w] \in {"call", "send"} \cup InCall}

\* the goroutines "for i := 0; i < cfg.NumWorkers; i++" starts
Started == Max(0, cfg.NumWorkers)

C29_PoolState ==
    /\ InFlight <= Started
    /\ InFlight = Cardinality(Busy)
    /\ DOMAIN pc = 1..cfg.NumWorkers
    /\ \A w \in Workers : pc[w] \in {"exited", "panicked"} => recordsClosed

C29_PoolStep == cfg' = cfg /\ DOMAIN pc' = DOMAIN pc

C29_FixedWorkerPool == []C29_PoolState /\ [][C29_PoolStep]_vars

\* two workers verify two records at once, nothing is left in the queue
C29_Witness ==
    /\ cfg.NumWorkers = 2
    /\ InFlight = 2
    /\ pc[1] = "probing"
    /\ pc[2] = "probing"
    /\ ~recordsClosed

(***************************************************************************)
(* C30.  As claimed: for every Result of the scoring engine, under every   *)
(* weight and threshold, the status is the one the thresholds give its     *)
(* score: valid iff the score reaches the valid threshold, risky iff it    *)
(* reaches the risky threshold but not the valid one, invalid otherwise.   *)
(***************************************************************************)
StatusByThresholds ==
    /\ verdict[1] = "valid" <=> verdict[2] >= cfg.ValidThreshold
    /\ verdict[1] = "risky" <=>
          (cfg.RiskyThreshold <= verdict[2] /\ verdict[2] < cfg.ValidThreshold)
    /\ verdict[1] = "invalid" <=>
          ~(verdict[2] >= cfg.ValidThreshold \/ cfg.RiskyThreshold <= verdict[2])

C30_StatusFollowsThresholds == verdict # <<>> => StatusByThresholds

(***************************************************************************)
(* C30, amended.  The status is the one the thresholds give the score for  *)
(* every Result that comes from the weighted sum; a Result decided by a    *)
(* dominating rule (nil, syntax-invalid, reachability no, disposable) is   *)
(* invalid with score 0 or 10 whatever the thresholds are.                 *)
(***************************************************************************)
C30_StatusFollowsThresholdsWhenWeighed ==
    verdict # <<>> =>
        IF Weighed
        THEN StatusByThresholds
        ELSE /\ verdict[1] = "invalid"
             /\ verdict[2] \in {0, 10}

\* a weighted score of 70 between the thresholds 60 and 80 is risky
C30_Witness ==
    /\ Weighed
    /\ cfg.ValidThreshold = 80
    /\ cfg.RiskyThreshold = 60
    /\ verdict = <<"risky", 70>>

(***************************************************************************)
(* C31.  A successful attempt ends the call at once: the call returns the  *)
(* signals of that attempt with a nil error, and no wait(), probe or       *)
(* backoff sleep comes after it, also when earlier attempts of the call    *)
(* failed.                                                                 *)
(***************************************************************************)
C31_SuccessReturnsAtOnce ==
    \A w \in Workers :
        LET log == callLog[w] IN
        \A p \in 1..Len(log) :
            (log[p][1] = "outcome" /\ log[p][2] = "ok") =>
                /\ p + 1 = Len(log)
                /\ log[p][4] # Nil
                /\ log[p + 1] = Returned(log[p][4], NoError)
                /\ pc[w] = "send"
                /\ err[w] = NoError
                /\ handle[w] = 0

\* the first attempt was refused, the second one succeeded and was returned
C31_Witness ==
    \E w \in Workers :
        /\ pc[w] = "send"
        /\ Len(Outcomes(callLog[w])) = 2
        /\ Outcomes(callLog[w])[1][2] = "error"
        /\ Outcomes(callLog[w])[2][2] = "ok"
        /\ Len(Sleeps(callLog[w])) = 1
        /\ callLog[w][Len(callLog[w])] = Returned(SigGood, NoError)

(***************************************************************************)
(* C32.  As claimed: whatever maxRetries is configured, zero and negative  *)
(* values included, a call of VerifyWithRetry that has returned made at    *)
(* least one probe attempt, returned a nil error only after an attempt     *)
(* that succeeded, and did not return a nil result with a nil error        *)
(* without a probe.                                                        *)
(***************************************************************************)
C32_AtLeastOneAttempt ==
    \A w \in Workers :
        pc[w] = "send" =>
            LET log == callLog[w]
                ret == log[Len(log)][2]
            IN  /\ Count(log, <<"probe">>) >= 1
                /\ ret.err = NoError =>
                      \E p \in 1..Len(log) : log[p][1] = "outcome" /\ log[p][2] = "ok"
                /\ ~(ret.result = Nil /\ ret.err = NoError /\ Count(log, <<"probe">>) = 0)

(***************************************************************************)
(* C33.  With a worker count of zero or less and records to verify, the    *)
(* run terminates: no record leaves the sender, the input queue is never   *)
(* closed, no probe is called, the results stream is closed, and the       *)
(* output has for every record with a non-empty email, in input order,     *)
(* the fallback Result (email, invalid, 0).                                *)
(***************************************************************************)
Fallbacks ==
    [j \in 1..Len(WithEmail) |-> VerifierResult(OnlyEmail(WithEmail[j]), "invalid", 0)]

C33_NoWorkersState ==
    cfg.NumWorkers <= 0 =>
        /\ sendIdx = 1
        /\ ~recordsClosed
        /\ sinceLastProbe = Saturated
        /\ collected = <<>>
        /\ progress.processed = 0
        /\ \A j \in 1..Len(results) : results[j] = Fallbacks[j]
        /\ mainPc = "done" => (resultsClosed /\ results = Fallbacks)

C33_NoWorkersTerminates ==
    /\ []C33_NoWorkersState
    /\ cfg.NumWorkers <= 0 => <>(mainPc = "done")

\* a negative worker count: two records, the second without an email, one
\* fallback Result
C33_Witness ==
    /\ cfg.NumWorkers < 0
    /\ Len(records) = 2
    /\ mainPc = "done"
    /\ sendIdx = 1
    /\ Len(results) = 1
    /\ results[1] = VerifierResult(OnlyEmail(1), "invalid", 0)

(***************************************************************************)
(* C34.  A worker in its backoff sleep, and any worker outside wait(),     *)
(* does not hold the rate limiter's lock; while a worker sleeps inside     *)
(* wait() it holds the lock, and no other worker enters the gate or is     *)
(* admitted by it before that sleep has ended.                             *)
(***************************************************************************)
C34_LockState ==
    \A w \in Workers :
        /\ pc[w] # "rl_wait" => rlHolder # w
        /\ (pc[w] = "rl_wait" /\ sleepLeft[w] > 0) => rlHolder = w

C34_LockStep ==
    \A w \in Workers :
        (pc[w] = "rl_wait" /\ sleepLeft[w] > 0) =>
            \A v \in Workers \ {w} :
                /\ pc[v] = "rl_lock" => pc'[v] = "rl_lock"
                /\ pc'[v] = "probe" => pc[v] = "probe"

C34_BackoffOutsideLock == []C34_LockState /\ [][C34_LockStep]_vars

\* the first worker has slept one of the two time units of its second
\* backoff; since then the second worker was admitted and started its probe
C34_Witness ==
    /\ cfg.NumWorkers = 2
    /\ pc[1] = "backoff"
    /\ attempt[1] = 1
    /\ BackoffDuration(attempt[1]) = 2
    /\ sleepLeft[1] = 1
    /\ pc[2] = "probing"
    /\ sinceLastCall = 0
    /\ sinceLastProbe = 0
    /\ rlHolder = 0

(***************************************************************************)
(* C35.  Once the results stream is closed no call of update is running or *)
(* still to come: the counters no longer change, the lock is free, and     *)
(* processed is the number of Results the collector received.  Before      *)
(* that, processed is never more than the Results received so far.         *)
(***************************************************************************)
C35_StatsState ==
    /\ progress.processed <= Len(collected)
    /\ resultsClosed =>
          /\ \A w \in Workers : pc[w] \notin {"update", "counting"}
          /\ pmuHolder = 0
          /\ progress.processed = Len(collected)

C35_StatsStep == resultsClosed => progress' = progress

C35_FinalStatsSettled == []C35_StatsState /\ [][C35_StatsStep]_vars

\* the output is built, two Results were received and counted
C35_Witness ==
    /\ cfg.NumWorkers = 2
    /\ mainPc = "done"
    /\ Len(collected) = 2
    /\ progress.processed = 2
    /\ progress.errors = 1
    /\ pmuHolder = 0

(***************************************************************************)
(* C36.  As claimed: for every record, one with several keys matching      *)
(* "email" and different values included, the reassembly looks up the      *)
(* email its worker verified: the entry appended for a record is the one   *)
(* stored under the key of the Result sent for that record, and a record   *)
(* skipped by its worker is skipped by the reassembly.                     *)
(***************************************************************************)
\* the Result sent for record i, if one was
SentFor(i) == {collected[p].result : p \in Arrivals({i})}

C36_SameEmailBothTimes ==
    [][(mainPc = "assemble" /\ outIdx' = outIdx + 1) =>
          IF SentFor(outIdx) = {}
          THEN cfg.NumWorkers >= 1 => results' = results
          ELSE /\ Len(results') = Len(results) + 1
               /\ \A sent \in SentFor(outIdx) :
                     ToLower(results'[Len(results')].Email) = ToLower(sent.Email)]_vars

(***************************************************************************)
(* C37.  With a valid threshold below the risky threshold DetermineStatus  *)
(* never returns risky: a weighted score is valid from the valid threshold *)
(* up, so every score that reaches the risky threshold is valid, and       *)
(* invalid below the valid threshold.                                      *)
(***************************************************************************)
C37_NoRiskyWhenThresholdsCross ==
    (verdict # <<>> /\ cfg.ValidThreshold < cfg.RiskyThreshold) =>
        /\ verdict[1] # "risky"
        /\ Weighed =>
              /\ verdict[2] >= cfg.RiskyThreshold => verdict[1] = "valid"
              /\ verdict[1] = "valid" <=> verdict[2] >= cfg.ValidThreshold
              /\ verdict[1] = "invalid" <=> verdict[2] < cfg.ValidThreshold

\* thresholds 60 and 80 crossed: a score of 70, between them, is valid
C37_Witness ==
    /\ Weighed
    /\ cfg.ValidThreshold = 60
    /\ cfg.RiskyThreshold = 80
    /\ verdict = <<"valid", 70>>

(***************************************************************************)
(* C38.  A batch handler verifies the emails of the request one at a time, *)
(* in request order, and its response has one entry for each email that is *)
(* non-empty after trimming, in request order, carrying the trimmed email; *)
(* the entry of an email whose verification failed has status error and    *)
(* score 0, and the emails after it are processed all the same.            *)
(***************************************************************************)
\* the emails of the request that are non-empty after trimming, trimmed
RECURSIVE Trimmed(_)
Trimmed(emails) ==
    IF emails = <<>> THEN <<>>
    ELSE IF TrimSpace(Head(emails)) = <<>> THEN Trimmed(Tail(emails))
    ELSE <<TrimSpace(Head(emails))>> \o Trimmed(Tail(emails))

EntryEmails == [j \in 1..Len(apiResults) |-> apiResults[j].Email]

C38_BatchState ==
    /\ apiPc \in {"loop", "verify"} =>
          EntryEmails = Trimmed(SubSeq(apiReq, 1, apiIdx - 1))
    /\ apiPc = "ok" => EntryEmails = Trimmed(apiReq)
    /\ apiPc = "bad_request" => apiResults = <<>>
    /\ apiPc = "verify" =>
          /\ cur[Handler].idx = apiIdx
          /\ cur[Handler].email = TrimSpace(apiReq[apiIdx])

C38_BatchStep ==
    (apiPc = "verify" /\ apiPc' # "verify") =>
        /\ apiResults' = Append(apiResults,
               IF err[Handler] # NoError
               THEN VerifyResponse(cur[Handler].email, "error", 0)
               ELSE VerifyResponse(cur[Handler].email, pending[Handler].result.VerificationStatus,
                                   pending[Handler].result.ConfidenceScore))
        /\ apiIdx' = apiIdx + 1
        /\ apiPc' = "loop"

Matching(email) == {j \in 1..Len(results) : EqualFold(email, results[j].Email)}

\* what the rule gives row i, whose record's trimmed email is email
Expected(i, email) ==
    IF i \in Matching(email)
    THEN <<results[i].VerificationStatus, results[i].ConfidenceScore>>
    ELSE IF Matching(email) # {}
         THEN LET first == CHOOSE j \in Matching(email) : \A k \in Matching(email) : j <= k
              IN  <<results[first].VerificationStatus, results[first].ConfidenceScore>>
         ELSE <<"invalid", 0>>

C39_OneRowPerRecord ==
    mainPc \in {"write", "done"} =>
        /\ Len(rows) = writeIdx - 1
        /\ mainPc = "done" => Len(rows) = Len(records)
        /\ \A i \in 1..Len(rows) :
              /\ rows[i].email \in getLowercaseValue(records[i], EmailKey)
              /\ <<rows[i].status, rows[i].score>> = Expected(i, TrimSpace(rows[i].email))

\* a skipped record with an empty email is followed by a record whose Result
\* lies one place earlier in the list and differs from its email in case
C39_Witness ==
    /\ mainPc = "done"
    /\ Len(records) = 2
    /\ TrimSpace(rows[1].email) = <<>>
    /\ rows[1].status = "invalid"
    /\ rows[1].score = 0
    /\ rows[2].email = <<" ", "A">>
    /\ results = <<Emitted(<<"a">>, "valid")>>
    /\ rows[2].status = "valid"

=============================================================================
